---- MODULE Spec2Model ----
(***************************************************************************)
(* A model of the Weather class of lib/weather.js: the in-memory weather   *)
(* document, the static item helpers that resolve a day or an hour by its  *)
(* datetime string or by its ordinal, and the per-field accessors built on *)
(* them.                                                                   *)
(*                                                                         *)
(* JavaScript values are records [t, v, s]: t is the type tag, v an        *)
(* integer payload (the number itself, or the code of a string, 0 being    *)
(* the empty string) and s the characters of a string where the code reads *)
(* them (the validators).  Objects are functions from property names to    *)
(* values; an array-valued property holds a sequence.  A reference to an   *)
(* element of an array is its position (1-based), 0 standing for "no       *)
(* element" (undefined / null).                                            *)
(***************************************************************************)
EXTENDS Integers, Sequences, FiniteSets, TLC

VARIABLES
    weatherData,   \* the private member #weatherData
    before,        \* #weatherData as it was when the last get or set call
                   \* started (the loaded document when none was made since)
    last,          \* the last call: method, arguments, outcome
    calls,         \* calls made since the document (or the array) was loaded
    src,           \* the array handed to the static item helpers
    srcBefore,     \* that array as it was when the last helper call started
    lastItem,      \* the last static helper call: arguments, outcome
    lastValid,     \* the last call of a static validator: arguments, outcome
    apiKey,        \* the property apiKey (0: the empty string)
    fetchDefined,  \* whether globalThis.fetch is defined
    inflight,      \* the HTTP request fetchWeatherData is waiting for
    requests,      \* HTTP requests issued by the last fetchWeatherData call
    pending        \* the fetchWeatherData calls a caller that does not await
                   \* them has left suspended at their await

vars == <<weatherData, before, last, calls, src, srcBefore, lastItem,
          lastValid, apiKey, fetchDefined, inflight, requests, pending>>

storeVars == <<weatherData, before, last, calls>>
itemVars == <<src, srcBefore, lastItem>>
fetchVars == <<apiKey, fetchDefined, inflight, requests, pending>>

-----------------------------------------------------------------------------
(* Bounds of the model. *)

MaxDays == 2
MaxHours == 2
MaxCalls == 1
MaxItems == 3
MaxArgs == 2

-----------------------------------------------------------------------------
(* JavaScript values. *)

Undefined == [t |-> "undefined", v |-> 0, s |-> <<>>]
Null == [t |-> "null", v |-> 0, s |-> <<>>]
False == [t |-> "boolean", v |-> 0, s |-> <<>>]
Num(n) == [t |-> "number", v |-> n, s |-> <<>>]
Str(k) == [t |-> "string", v |-> k, s |-> <<>>]

\* typeof x
TypeOf(x) == IF x.t = "null" THEN "object" ELSE x.t

\* ToBoolean(x): 0, "", null, undefined and false are falsy
Truthy(x) ==
    CASE x.t = "number" -> x.v # 0
      [] x.t = "string" -> x.v # 0
      [] x.t = "boolean" -> x.v = 1
      [] OTHER -> FALSE

\* x || null
OrNull(x) == IF Truthy(x) THEN x ELSE Null

\* tmp === 0 ? 0 : (tmp || null)
ZeroOrNull(tmp) == IF tmp = Num(0) THEN Num(0) ELSE OrNull(tmp)

\* obj.key: undefined when the object has no such property
Prop(obj, key) == IF key \in DOMAIN obj THEN obj[key] ELSE Undefined

\* obj.key = val
Assign(obj, key, val) ==
    [k \in (DOMAIN obj) \cup {key} |-> IF k = key THEN val ELSE obj[k]]

\* obj.key where the property holds an array: def is FALSE when it is undefined
ArrayRef(obj, key) ==
    IF key \in DOMAIN obj
    THEN [def |-> TRUE, arr |-> obj[key]]
    ELSE [def |-> FALSE, arr |-> <<>>]

\* the last match instead of the first
FindLast(arr, datetimeVal) ==
    LET m == {i \in 1..Len(arr) : Prop(arr[i], "datetime") = datetimeVal}
    IN  IF m = {} THEN 0 ELSE CHOOSE i \in m : \A j \in m : i >= j

\* arr.find(item => item.datetime === datetimeVal): the first match, 0 if none
FindFirst(arr, datetimeVal) ==
    LET m == {i \in 1..Len(arr) : Prop(arr[i], "datetime") = datetimeVal}
    IN  IF m = {} THEN 0 ELSE CHOOSE i \in m : \A j \in m : i <= j

\* an index that counts from one
AtOneBased(arr, n) == IF n >= 1 /\ n <= Len(arr) THEN n ELSE 0

\* arr[n] for a number n: the element at zero-based position n, 0 if none
At(arr, n) == IF n >= 0 /\ n < Len(arr) THEN n + 1 ELSE 0

-----------------------------------------------------------------------------
(* Outcomes of a call. *)

\* thrown: the error the call raised ("none" when it returned); value: what it
\* returned; lookups: how many times it called Weather.filterItemByDatetimeVal.
Return(val) == [thrown |-> "none", value |-> val, lookups |-> 0]
Throw(err) == [thrown |-> err, value |-> Undefined, lookups |-> 0]
Lookups(o, n) == [o EXCEPT !.lookups = n]

\* the error escapes the getter
CatchNothing(o) == o

\* try{ body }catch(error){ return null; }
CatchReturnNull(o) ==
    IF o.thrown # "none" THEN [o EXCEPT !.thrown = "none", !.value = Null] ELSE o

\* try{ body }catch(error){ throw error; }
CatchRethrow(o) == o

-----------------------------------------------------------------------------
(* The static item helpers.  src is an array reference [def, arr]. *)

\* Weather.filterItemByDatetimeVal(src, datetimeVal): the position of the item
\* returned (0 for null), or the error thrown.  Reading a property of an
\* undefined src is a TypeError of the runtime.
filterItemByDatetimeVal(srcRef, datetimeVal) ==
    IF TypeOf(datetimeVal) = "string"
    THEN IF ~srcRef.def
         THEN [thrown |-> "TypeError", idx |-> 0]
         ELSE [thrown |-> "none", idx |-> FindFirst(srcRef.arr, datetimeVal)]
    ELSE IF TypeOf(datetimeVal) = "number"
    THEN IF ~srcRef.def
         THEN [thrown |-> "TypeError", idx |-> 0]
         ELSE [thrown |-> "none", idx |-> At(srcRef.arr, datetimeVal.v)]
    ELSE [thrown |-> "TypeError", idx |-> 0]

\* Object.assign(target, source): the source's own properties win
ObjectAssign(target, source) ==
    [k \in (DOMAIN target) \cup (DOMAIN source) |->
        IF k \in DOMAIN source THEN source[k] ELSE target[k]]

\* the item put in front of the element at position i
InsertAt(arr, i, item) ==
    SubSeq(arr, 1, i - 1) \o <<item>> \o SubSeq(arr, i, Len(arr))

\* arr with the element at position i replaced
ReplaceAt(arr, i, item) == [arr EXCEPT ![i] = item]

\* the replacement's own datetime wins
setItemKeepsDataDatetime(arr, datetimeVal, data) ==
    IF ~data.isObj THEN [thrown |-> "TypeError", arr |-> arr]
    ELSE IF TypeOf(datetimeVal) = "string"
    THEN LET i == FindFirst(arr, datetimeVal)
         IN  [thrown |-> "none",
              arr |-> IF i = 0 THEN arr
                      ELSE ReplaceAt(arr, i, ObjectAssign(arr[i], data.obj))]
    ELSE IF TypeOf(datetimeVal) = "number"
    THEN LET i == At(arr, datetimeVal.v)
         IN  [thrown |-> "none",
              arr |-> IF i = 0 THEN arr ELSE ReplaceAt(arr, i, data.obj)]
    ELSE [thrown |-> "TypeError", arr |-> arr]

\* the number form without if(src[datetimeVal]): reading the datetime of an
\* element that is not there is a TypeError of the runtime
setItemUnguarded(arr, datetimeVal, data) ==
    IF ~data.isObj THEN [thrown |-> "TypeError", arr |-> arr]
    ELSE IF TypeOf(datetimeVal) = "string"
    THEN LET i == FindFirst(arr, datetimeVal)
         IN  [thrown |-> "none",
              arr |-> IF i = 0 THEN arr
                      ELSE ReplaceAt(arr, i,
                               Assign(ObjectAssign(arr[i], data.obj),
                                      "datetime", datetimeVal))]
    ELSE IF TypeOf(datetimeVal) = "number"
    THEN LET i == At(arr, datetimeVal.v)
         IN  IF i = 0 THEN [thrown |-> "TypeError", arr |-> arr]
             ELSE [thrown |-> "none",
                   arr |-> ReplaceAt(arr, i,
                               Assign(data.obj, "datetime",
                                      Prop(arr[i], "datetime")))]
    ELSE [thrown |-> "TypeError", arr |-> arr]

\* Weather.setItemByDatetimeVal(src, datetimeVal, data) on an array src:
\* the error thrown and the array afterwards.
setItemByDatetimeVal(arr, datetimeVal, data) ==
    IF ~data.isObj THEN [thrown |-> "TypeError", arr |-> arr]
    ELSE IF TypeOf(datetimeVal) = "string"
    THEN LET i == FindFirst(arr, datetimeVal)
         IN  [thrown |-> "none",
              arr |-> IF i = 0 THEN arr
                      ELSE ReplaceAt(arr, i,
                               Assign(ObjectAssign(arr[i], data.obj),
                                      "datetime", datetimeVal))]
    ELSE IF TypeOf(datetimeVal) = "number"
    THEN LET i == At(arr, datetimeVal.v)
         IN  [thrown |-> "none",
              arr |-> IF i = 0 THEN arr
                      ELSE ReplaceAt(arr, i,
                               Assign(data.obj, "datetime",
                                      Prop(arr[i], "datetime")))]
    ELSE [thrown |-> "TypeError", arr |-> arr]

\* the number form copied from setItemByDatetimeVal: it replaces the item
updateItemReplaces(arr, datetimeVal, data) ==
    IF ~data.isObj THEN [thrown |-> "TypeError", arr |-> arr]
    ELSE IF TypeOf(datetimeVal) = "string"
    THEN LET i == FindFirst(arr, datetimeVal)
         IN  [thrown |-> "none",
              arr |-> IF i = 0 THEN arr
                      ELSE ReplaceAt(arr, i,
                               Assign(ObjectAssign(arr[i], data.obj),
                                      "datetime", datetimeVal))]
    ELSE IF TypeOf(datetimeVal) = "number"
    THEN LET i == At(arr, datetimeVal.v)
         IN  [thrown |-> "none",
              arr |-> IF i = 0 THEN arr
                      ELSE ReplaceAt(arr, i,
                               Assign(data.obj, "datetime",
                                      Prop(arr[i], "datetime")))]
    ELSE [thrown |-> "TypeError", arr |-> arr]

\* Weather.updateItemByDatetimeVal(src, datetimeVal, data) on an array src
updateItemByDatetimeVal(arr, datetimeVal, data) ==
    IF ~data.isObj THEN [thrown |-> "TypeError", arr |-> arr]
    ELSE IF TypeOf(datetimeVal) = "string"
    THEN LET i == FindFirst(arr, datetimeVal)
         IN  [thrown |-> "none",
              arr |-> IF i = 0 THEN arr
                      ELSE ReplaceAt(arr, i,
                               Assign(ObjectAssign(arr[i], data.obj),
                                      "datetime", datetimeVal))]
    ELSE IF TypeOf(datetimeVal) = "number"
    THEN LET i == At(arr, datetimeVal.v)
         IN  [thrown |-> "none",
              arr |-> IF i = 0 THEN arr
                      ELSE ReplaceAt(arr, i,
                               ObjectAssign(arr[i],
                                   Assign(data.obj, "datetime",
                                          Prop(arr[i], "datetime"))))]
    ELSE [thrown |-> "TypeError", arr |-> arr]

-----------------------------------------------------------------------------
(* The per-field accessors at day granularity.  F is the property the      *)
(* method reads or writes: the methods of one shape differ in F only.      *)

\* days[i]?.F for the position i found (0: no day)
OptProp(arr, i, F) == IF i = 0 THEN Undefined ELSE Prop(arr[i], F)

\* the document with property F of day i set to value
WithDayField(doc, i, F, value) ==
    [doc EXCEPT !["days"] = ReplaceAt(@, i, Assign(@[i], F, value))]

\* getTempOnDay and the 26 getters of its shape (tempmax ... moonphase)
getTempOnDay(doc, dayInfo, F) ==
    LET days == ArrayRef(doc, "days")
    IN  CatchReturnNull(
          IF TypeOf(dayInfo) = "string"
          THEN IF ~days.def THEN Throw("TypeError")
               ELSE Return(ZeroOrNull(
                        OptProp(days.arr, FindFirst(days.arr, dayInfo), F)))
          ELSE IF TypeOf(dayInfo) = "number"
          THEN IF ~days.def THEN Throw("TypeError")
               ELSE Return(ZeroOrNull(
                        OptProp(days.arr, At(days.arr, dayInfo.v), F)))
          ELSE Throw("TypeError"))

\* getConditionsOnDay and the 5 getters of its shape (stations, sunrise,
\* sunset, description, icon)
getConditionsOnDay(doc, dayInfo, F) ==
    LET days == ArrayRef(doc, "days")
    IN  CatchReturnNull(
          IF TypeOf(dayInfo) = "string"
          THEN IF ~days.def THEN Throw("TypeError")
               ELSE Return(OrNull(
                        OptProp(days.arr, FindFirst(days.arr, dayInfo), F)))
          ELSE IF TypeOf(dayInfo) = "number"
          THEN IF ~days.def THEN Throw("TypeError")
               ELSE Return(OrNull(
                        OptProp(days.arr, At(days.arr, dayInfo.v), F)))
          ELSE Throw("TypeError"))

\* a setter that dereferences the day without testing it
setOnDayUnguarded(doc, dayInfo, F, value) ==
    LET days == ArrayRef(doc, "days")
        i == IF TypeOf(dayInfo) = "string"
             THEN FindFirst(days.arr, dayInfo)
             ELSE At(days.arr, dayInfo.v)
    IN  IF TypeOf(dayInfo) \in {"string", "number"}
        THEN IF ~days.def \/ i = 0
             THEN [thrown |-> "TypeError", doc |-> doc]
             ELSE [thrown |-> "none", doc |-> WithDayField(doc, i, F, value)]
        ELSE [thrown |-> "TypeError", doc |-> doc]

\* setTempOnDay: days.find(...) and if(day) day.F = value
setTempOnDay(doc, dayInfo, F, value) ==
    LET days == ArrayRef(doc, "days")
    IN  CatchRethrow(
          IF TypeOf(dayInfo) = "string"
          THEN IF ~days.def THEN [thrown |-> "TypeError", doc |-> doc]
               ELSE LET i == FindFirst(days.arr, dayInfo)
                    IN  [thrown |-> "none",
                         doc |-> IF i = 0 THEN doc
                                 ELSE WithDayField(doc, i, F, value)]
          ELSE IF TypeOf(dayInfo) = "number"
          THEN IF ~days.def THEN [thrown |-> "TypeError", doc |-> doc]
               ELSE LET i == At(days.arr, dayInfo.v)
                    IN  [thrown |-> "none",
                         doc |-> IF i = 0 THEN doc
                                 ELSE WithDayField(doc, i, F, value)]
          ELSE [thrown |-> "TypeError", doc |-> doc])

\* a setter without the branch that throws: an identifier of invalid type
\* is taken for one that matches nothing
setOnDayNoTypeCheck(doc, dayInfo, F, value) ==
    LET days == ArrayRef(doc, "days")
        i == IF TypeOf(dayInfo) = "string" THEN FindFirst(days.arr, dayInfo)
             ELSE IF TypeOf(dayInfo) = "number" THEN At(days.arr, dayInfo.v)
             ELSE 0
    IN  IF ~days.def
        THEN [thrown |-> "TypeError", doc |-> doc]
        ELSE [thrown |-> "none",
              doc |-> IF i = 0 THEN doc ELSE WithDayField(doc, i, F, value)]

\* the first day, in array order, whose datetime is dayInfo: where the loop
\* for(let day of days){ if(day.datetime === dayInfo){ ...; break; } } stops
LoopFirst(arr, dayInfo) ==
    IF \E i \in 1..Len(arr) : Prop(arr[i], "datetime") = dayInfo
    THEN CHOOSE i \in 1..Len(arr) :
            /\ Prop(arr[i], "datetime") = dayInfo
            /\ \A j \in 1..(i - 1) : Prop(arr[j], "datetime") # dayInfo
    ELSE 0

\* setConditionsOnDay and the 31 setters of its shape (setTempmaxOnDay ...
\* setIconOnDay): a for-of loop that breaks at the first match for a string,
\* days[dayInfo] and if(day) for a number
setConditionsOnDay(doc, dayInfo, F, value) ==
    LET days == ArrayRef(doc, "days")
    IN  CatchRethrow(
          IF TypeOf(dayInfo) = "string"
          THEN IF ~days.def THEN [thrown |-> "TypeError", doc |-> doc]
               ELSE LET i == LoopFirst(days.arr, dayInfo)
                    IN  [thrown |-> "none",
                         doc |-> IF i = 0 THEN doc
                                 ELSE WithDayField(doc, i, F, value)]
          ELSE IF TypeOf(dayInfo) = "number"
          THEN IF ~days.def THEN [thrown |-> "TypeError", doc |-> doc]
               ELSE LET i == At(days.arr, dayInfo.v)
                    IN  [thrown |-> "none",
                         doc |-> IF i = 0 THEN doc
                                 ELSE WithDayField(doc, i, F, value)]
          ELSE [thrown |-> "TypeError", doc |-> doc])

-----------------------------------------------------------------------------
(* The per-field accessors at datetime granularity. *)

\* dayItem.hours of the day at position i
HoursRef(doc, i) == ArrayRef(doc["days"][i], "hours")

\* the document with property F of hour j of day i set to value
WithHourField(doc, i, j, F, value) ==
    [doc EXCEPT !["days"] =
        ReplaceAt(@, i,
            [@[i] EXCEPT !["hours"] = ReplaceAt(@, j, Assign(@[j], F, value))])]

\* a getter written with optional chaining, dayItem?.hours and hourItem?.F:
\* it resolves the time identifier whatever the day, and returns undefined
getAtDatetimeOptional(doc, dayInfo, timeInfo, F) ==
    LET dayItem == filterItemByDatetimeVal(ArrayRef(doc, "days"), dayInfo)
    IN  CatchReturnNull(
          IF dayItem.thrown # "none" THEN Lookups(Throw(dayItem.thrown), 1)
          ELSE LET hours == IF dayItem.idx = 0
                            THEN [def |-> FALSE, arr |-> <<>>]
                            ELSE HoursRef(doc, dayItem.idx)
                   hourItem == filterItemByDatetimeVal(hours, timeInfo)
               IN  IF hourItem.thrown # "none"
                   THEN Lookups(Throw(hourItem.thrown), 2)
                   ELSE IF hourItem.idx = 0 THEN Lookups(Return(Undefined), 2)
                   ELSE Lookups(Return(Prop(hours.arr[hourItem.idx], F)), 2))

\* getTempAtDatetime and the 22 getters of its shape
getTempAtDatetime(doc, dayInfo, timeInfo, F) ==
    LET dayItem == filterItemByDatetimeVal(ArrayRef(doc, "days"), dayInfo)
    IN  CatchReturnNull(
          IF dayItem.thrown # "none" THEN Lookups(Throw(dayItem.thrown), 1)
          ELSE IF dayItem.idx = 0 THEN Lookups(Return(Null), 1)
          ELSE LET hours == HoursRef(doc, dayItem.idx)
                   hourItem == filterItemByDatetimeVal(hours, timeInfo)
               IN  IF hourItem.thrown # "none"
                   THEN Lookups(Throw(hourItem.thrown), 2)
                   ELSE IF hourItem.idx = 0 THEN Lookups(Return(Null), 2)
                   ELSE Lookups(Return(Prop(hours.arr[hourItem.idx], F)), 2))

\* a setter that resolves the hour with the day identifier
setAtDatetimeByDayInfo(doc, dayInfo, timeInfo, F, value) ==
    LET dayItem == filterItemByDatetimeVal(ArrayRef(doc, "days"), dayInfo)
    IN  IF dayItem.thrown # "none"
        THEN [thrown |-> dayItem.thrown, doc |-> doc, lookups |-> 1]
        ELSE IF dayItem.idx = 0
        THEN [thrown |-> "none", doc |-> doc, lookups |-> 1]
        ELSE LET hourItem ==
                   filterItemByDatetimeVal(HoursRef(doc, dayItem.idx), dayInfo)
             IN  IF hourItem.thrown # "none"
                 THEN [thrown |-> hourItem.thrown, doc |-> doc, lookups |-> 2]
                 ELSE IF hourItem.idx = 0
                 THEN [thrown |-> "TypeError", doc |-> doc, lookups |-> 2]
                 ELSE [thrown |-> "none", lookups |-> 2,
                       doc |-> WithHourField(doc, dayItem.idx, hourItem.idx,
                                             F, value)]

\* setTempAtDatetime and the 22 setters of its shape:
\* dayItem && (Weather.filterItemByDatetimeVal(dayItem.hours, timeInfo).F = value)
\* Setting a property of null is a TypeError of the runtime.
setTempAtDatetime(doc, dayInfo, timeInfo, F, value) ==
    LET dayItem == filterItemByDatetimeVal(ArrayRef(doc, "days"), dayInfo)
    IN  CatchRethrow(
          IF dayItem.thrown # "none"
          THEN [thrown |-> dayItem.thrown, doc |-> doc, lookups |-> 1]
          ELSE IF dayItem.idx = 0
          THEN [thrown |-> "none", doc |-> doc, lookups |-> 1]
          ELSE LET hourItem ==
                     filterItemByDatetimeVal(HoursRef(doc, dayItem.idx), timeInfo)
               IN  IF hourItem.thrown # "none"
                   THEN [thrown |-> hourItem.thrown, doc |-> doc, lookups |-> 2]
                   ELSE IF hourItem.idx = 0
                   THEN [thrown |-> "TypeError", doc |-> doc, lookups |-> 2]
                   ELSE [thrown |-> "none", lookups |-> 2,
                         doc |-> WithHourField(doc, dayItem.idx, hourItem.idx,
                                               F, value)])

\* the document with the hours of day i replaced
WithHours(doc, i, hours) ==
    [doc EXCEPT !["days"] = ReplaceAt(@, i, [@[i] EXCEPT !["hours"] = hours])]

\* updateDataAtDatetime: dayItem.hours is read without testing dayItem, and
\* the helper iterates or indexes the hours without testing them; both are
\* TypeErrors of the runtime when the day or its hours are missing
updateDataAtDatetime(doc, dayInfo, timeInfo, data) ==
    LET dayItem == filterItemByDatetimeVal(ArrayRef(doc, "days"), dayInfo)
    IN  CatchRethrow(
          IF dayItem.thrown # "none"
          THEN [thrown |-> dayItem.thrown, doc |-> doc]
          ELSE IF dayItem.idx = 0
          THEN [thrown |-> "TypeError", doc |-> doc]
          ELSE LET hours == HoursRef(doc, dayItem.idx)
               IN  IF ~hours.def
                   THEN [thrown |-> "TypeError", doc |-> doc]
                   ELSE LET o == updateItemByDatetimeVal(hours.arr, timeInfo, data)
                        IN  [thrown |-> o.thrown,
                             doc |-> WithHours(doc, dayItem.idx, o.arr)])

\* setDataAtDatetime: as updateDataAtDatetime, with
\* Weather.setItemByDatetimeVal(dayItem.hours, timeInfo, data)
setDataAtDatetime(doc, dayInfo, timeInfo, data) ==
    LET dayItem == filterItemByDatetimeVal(ArrayRef(doc, "days"), dayInfo)
    IN  CatchRethrow(
          IF dayItem.thrown # "none"
          THEN [thrown |-> dayItem.thrown, doc |-> doc]
          ELSE IF dayItem.idx = 0
          THEN [thrown |-> "TypeError", doc |-> doc]
          ELSE LET hours == HoursRef(doc, dayItem.idx)
               IN  IF ~hours.def
                   THEN [thrown |-> "TypeError", doc |-> doc]
                   ELSE LET o == setItemByDatetimeVal(hours.arr, timeInfo, data)
                        IN  [thrown |-> o.thrown,
                             doc |-> WithHours(doc, dayItem.idx, o.arr)])

-----------------------------------------------------------------------------
(* Accessors of the properties of the document itself. *)

\* the ranges of setLatitude and setLongitude
MaxLatitude == 90
MaxLongitude == 180

\* a getter that ends in `|| null` alone
getTopNoZeroTest(doc, F) == Return(OrNull(Prop(doc, F)))

\* getLatitude(), and getLongitude() and getTzoffset() of the same shape:
\* this.#weatherData.latitude === 0 ? 0 : (this.#weatherData.latitude || null)
getLatitude(doc, F) == Return(ZeroOrNull(Prop(doc, F)))

\* getQueryCost(): this.#weatherData.queryCost || null
getQueryCost(doc, F) == Return(OrNull(Prop(doc, F)))

\* a range test that excludes the two ends
setLatitudeOpenRange(doc, F, value, max) ==
    IF value.v <= -max \/ value.v >= max
    THEN [thrown |-> "RangeError", doc |-> doc]
    ELSE [thrown |-> "none", doc |-> Assign(doc, F, value)]

\* setLatitude(value) with max 90, setLongitude(value) with max 180, for a
\* value that is a number: the test of the range, then the assignment
setLatitude(doc, F, value, max) ==
    IF value.v < -max \/ value.v > max
    THEN [thrown |-> "RangeError", doc |-> doc]
    ELSE [thrown |-> "none", doc |-> Assign(doc, F, value)]

\* setTzoffset(value), and setQueryCost(value) of the same shape
setTzoffset(doc, F, value) == [thrown |-> "none", doc |-> Assign(doc, F, value)]

\* the numeric properties of the document that have accessors
TopFields == {"latitude", "longitude", "tzoffset", "queryCost"}

\* getLatitude(), getLongitude(), getTzoffset(), getQueryCost()
GetTopField(doc, F) ==
    IF F = "queryCost" THEN getQueryCost(doc, F) ELSE getLatitude(doc, F)

\* setLatitude(value), setLongitude(value), setTzoffset(value),
\* setQueryCost(value)
SetTopField(doc, F, value) ==
    CASE F = "latitude" -> setLatitude(doc, F, value, MaxLatitude)
      [] F = "longitude" -> setLatitude(doc, F, value, MaxLongitude)
      [] OTHER -> setTzoffset(doc, F, value)

-----------------------------------------------------------------------------
(* The field catalog of the model: one field per shape of accessor. *)

\* day fields: temp (getTempOnDay / setTempOnDay), tempmax (getTempmaxOnDay,
\* of the shape of getTempOnDay / setTempmaxOnDay, of the shape of
\* setConditionsOnDay), conditions (getConditionsOnDay / setConditionsOnDay)
DayFields == {"temp", "tempmax", "conditions"}

\* hour fields: temp (getTempAtDatetime / setTempAtDatetime)
HourFields == {"temp"}

\* get<Field>OnDay(dayInfo)
GetFieldOnDay(doc, dayInfo, F) ==
    IF F \in {"temp", "tempmax"}
    THEN getTempOnDay(doc, dayInfo, F)
    ELSE getConditionsOnDay(doc, dayInfo, F)

\* set<Field>OnDay(dayInfo, value)
SetFieldOnDay(doc, dayInfo, F, value) ==
    IF F = "temp"
    THEN setTempOnDay(doc, dayInfo, F, value)
    ELSE setConditionsOnDay(doc, dayInfo, F, value)

-----------------------------------------------------------------------------
(* Documents, identifiers and values the calls are made with. *)

\* {}: the document of a new or cleared store
EmptyObject == [k \in {} |-> Undefined]

\* an object with the properties of record r
Obj(r) == [k \in DOMAIN r |-> r[k]]

\* hour j of a day, as the API returns it
Hour(j) == Obj([datetime |-> Str(j), temp |-> Num(j)])

\* day i, with n hours
Day(i, n) ==
    Obj([datetime |-> Str(i), temp |-> Num(i), conditions |-> Str(i),
         hours |-> [j \in 1..n |-> Hour(j)]])

\* a response of n days, their datetimes distinct
Doc(n) == Obj([days |-> [i \in 1..n |-> Day(i, MaxHours)]])

\* a document whose days all carry one datetime, and their hours too
DupDoc ==
    Obj([days |-> [i \in 1..MaxDays |->
            Obj([datetime |-> Str(1), temp |-> Num(i), conditions |-> Str(i),
                 hours |-> [j \in 1..MaxHours |->
                              Obj([datetime |-> Str(1), temp |-> Num(j)])]])]])

\* a response without hourly data: its day has no hours, and a temp of 0
NoHoursDoc == Obj([days |-> <<Obj([datetime |-> Str(1), temp |-> Num(0)])>>])

\* a response with the properties of the location and the request
LocatedDoc ==
    Obj([latitude |-> Num(30), longitude |-> Num(31), tzoffset |-> Num(2),
         queryCost |-> Num(1), days |-> <<Day(1, MaxHours)>>])

\* a response whose days differ in the number of their hours, and whose
\* hours differ from day to day
UnevenDoc ==
    Obj([days |-> <<Day(1, 1),
                    Obj([datetime |-> Str(2), temp |-> Num(2),
                         hours |-> [j \in 1..MaxHours |->
                                      Obj([datetime |-> Str(j),
                                           temp |-> Num(10 + j)])]])>>])

\* the documents loaded: of no day, of one day (with and without hours), of
\* two days and of MaxDays days
SampleDocs ==
    {Doc(0), Doc(MaxDays), DupDoc, NoHoursDoc, LocatedDoc, UnevenDoc}

\* the elements argument of getWeatherHourlyData: none, and a list of keys
ElementLists == {{}, {"datetime"}}

\* the numbers written by the setters of the document's properties: 0, 7,
\* and for a field with a range its two ends and their neighbours outside
TopValues(F) ==
    {Num(0), Num(7)}
    \cup IF F \in {"latitude", "longitude"}
         THEN {Num(s * (max + d)) : s \in {-1, 1}, d \in {0, 1},
                                    max \in {IF F = "latitude" THEN MaxLatitude
                                             ELSE MaxLongitude}}
         ELSE {}

\* identifiers: datetime strings (the last one matches nothing), ordinals
\* (-1 and n are out of range), and a value of invalid type
Ids(n) ==
    {Str(k) : k \in 1..(n + 1)} \cup {Num(k) : k \in -1..n} \cup {False}

DayIds == Ids(MaxDays)
TimeIds == Ids(MaxHours)

ValidType(id) == TypeOf(id) \in {"string", "number"}

\* values written by the setters
Values == {Num(0), Num(7), Str(0), Null}
HourValues == {Num(0), Num(7), Null}

\* no data argument
NoData == [isObj |-> FALSE, obj |-> EmptyObject]

\* the data argument of updateDataAtDatetime: a partial record, one with a
\* datetime of its own, or a value that is no object
HourDataArgs ==
    {[isObj |-> TRUE, obj |-> Obj([temp |-> Num(7)])],
     [isObj |-> TRUE, obj |-> Obj([datetime |-> Str(9), icon |-> Str(3)])],
     NoData}

-----------------------------------------------------------------------------
(* The bulk setters of a day. *)

\* arr[n] = item for a number n from 0 to the length: an element is
\* replaced, and at n = length the array grows by one
AssignAt(arr, n, item) ==
    IF n < Len(arr) THEN ReplaceAt(arr, n + 1, item) ELSE Append(arr, item)

\* setDataOnDay(dayInfo, data): the string form replaces the first day of
\* that datetime, the number form assigns this.#weatherData.days[dayInfo]
setDataOnDay(doc, dayInfo, data) ==
    LET days == ArrayRef(doc, "days")
    IN  CatchRethrow(
          IF TypeOf(dayInfo) = "string"
          THEN IF ~days.def THEN [thrown |-> "TypeError", doc |-> doc]
               ELSE LET i == FindFirst(days.arr, dayInfo)
                    IN  [thrown |-> "none",
                         doc |-> IF i = 0 THEN doc
                                 ELSE [doc EXCEPT !["days"] = ReplaceAt(@, i, data)]]
          ELSE IF TypeOf(dayInfo) = "number"
          THEN IF ~days.def THEN [thrown |-> "TypeError", doc |-> doc]
               ELSE [thrown |-> "none",
                     doc |-> [doc EXCEPT !["days"] = AssignAt(@, dayInfo.v, data)]]
          ELSE [thrown |-> "TypeError", doc |-> doc])

\* setHourlyDataOnDay(dayInfo, data): the string form sets the hours of the
\* first day of that datetime, the number form assigns
\* this.#weatherData.days[dayInfo].hours
setHourlyDataOnDay(doc, dayInfo, data) ==
    LET days == ArrayRef(doc, "days")
    IN  CatchRethrow(
          IF TypeOf(dayInfo) = "string"
          THEN IF ~days.def THEN [thrown |-> "TypeError", doc |-> doc]
               ELSE LET i == FindFirst(days.arr, dayInfo)
                    IN  [thrown |-> "none",
                         doc |-> IF i = 0 THEN doc
                                 ELSE WithDayField(doc, i, "hours", data)]
          ELSE IF TypeOf(dayInfo) = "number"
          THEN IF ~days.def THEN [thrown |-> "TypeError", doc |-> doc]
               ELSE LET i == At(days.arr, dayInfo.v)
                    IN  IF i = 0 THEN [thrown |-> "TypeError", doc |-> doc]
                        ELSE [thrown |-> "none", doc |-> WithDayField(doc, i, "hours", data)]
          ELSE [thrown |-> "TypeError", doc |-> doc])

\* the data argument of setDataOnDay: a day record
DayDataArgs == {Obj([datetime |-> Str(9), temp |-> Num(7)])}

\* the data argument of setHourlyDataOnDay: a list of hours
HoursArgs == {<<>>, <<Obj([datetime |-> Str(9), temp |-> Num(7)])>>}

-----------------------------------------------------------------------------
(* The hourly series.  An element of a series is [def, obj]: def is FALSE *)
(* for an element that is undefined.                                      *)

ReturnArray(arr) ==
    [thrown |-> "none", value |-> Undefined, isArray |-> TRUE, arr |-> arr]
ThrowArray(err) ==
    [thrown |-> err, value |-> Undefined, isArray |-> FALSE, arr |-> <<>>]

\* the arrays joined with the last one first
RECURSIVE FlattenLastFirst(_)
FlattenLastFirst(arrs) ==
    IF arrs = <<>> THEN <<>> ELSE FlattenLastFirst(Tail(arrs)) \o Head(arrs)

\* what flatMap does with the arrays its callback returned: one array of
\* their elements, array after array
RECURSIVE Flatten(_)
Flatten(arrs) ==
    IF arrs = <<>> THEN <<>> ELSE Head(arrs) \o Flatten(Tail(arrs))

\* day => day.hours, as flatMap takes it: the hours, or the one element
\* undefined when the day has no hours
DayHours(day) ==
    IF "hours" \in DOMAIN day
    THEN [k \in 1..Len(day["hours"]) |-> [def |-> TRUE, obj |-> day["hours"][k]]]
    ELSE <<[def |-> FALSE, obj |-> EmptyObject]>>

\* extractSubobjectByKeys(originalDict, keysList)
extractSubobjectByKeys(originalDict, keysList) ==
    [k \in keysList \cap DOMAIN originalDict |-> originalDict[k]]

\* getWeatherHourlyData(elements); `key in undefined` is a TypeError
getWeatherHourlyData(doc, elements) ==
    LET days == ArrayRef(doc, "days")
    IN  CatchReturnNull(
          IF ~days.def THEN ThrowArray("TypeError")
          ELSE LET hourlyData ==
                     Flatten([i \in 1..Len(days.arr) |-> DayHours(days.arr[i])])
               IN  IF elements # {}
                   THEN IF \E j \in 1..Len(hourlyData) : ~hourlyData[j].def
                        THEN ThrowArray("TypeError")
                        ELSE ReturnArray(
                               [j \in 1..Len(hourlyData) |->
                                  [def |-> TRUE,
                                   obj |-> extractSubobjectByKeys(
                                              hourlyData[j].obj, elements)]])
                   ELSE ReturnArray(hourlyData))

\* new Date(`${day.datetime}T${hour.datetime}`): the date of the day and the
\* time of the hour it was built from
DateOf(day, hour) ==
    Obj([date |-> Prop(day, "datetime"), time |-> Prop(hour, "datetime")])

\* getHourlyDatetimes(): it has no try, and day.hours.map is a TypeError on
\* a day without hours
getHourlyDatetimes(doc) ==
    LET days == ArrayRef(doc, "days")
    IN  IF ~days.def THEN ThrowArray("TypeError")
        ELSE IF \E i \in 1..Len(days.arr) : "hours" \notin DOMAIN days.arr[i]
        THEN ThrowArray("TypeError")
        ELSE ReturnArray(
               Flatten([i \in 1..Len(days.arr) |->
                          [k \in 1..Len(days.arr[i]["hours"]) |->
                             [def |-> TRUE,
                              obj |-> DateOf(days.arr[i],
                                             days.arr[i]["hours"][k])]]]))

-----------------------------------------------------------------------------
(* The store: construction and the calls made on it. *)

NoCall ==
    [op |-> "none", day |-> Undefined, time |-> Undefined, field |-> "",
     value |-> Undefined, data |-> NoData, thrown |-> "none",
     ret |-> Undefined, lookups |-> 0, location |-> Undefined,
     settled |-> "none", error |-> "none", uncaught |-> FALSE,
     doc |-> EmptyObject, params |-> <<>>, elements |-> {},
     series |-> <<>>]

NoItemCall ==
    [op |-> "none", id |-> Undefined, data |-> NoData,
     thrown |-> "none", idx |-> 0]

\* no validator was called
NoValidCall == [op |-> "none", args |-> <<>>, thrown |-> "none", ret |-> Undefined]

\* no HTTP request is awaited
NoRequest == [transport |-> "none"]

\* constructor, with the default apiKey = '': this.#weatherData = {}
Init ==
    /\ weatherData = EmptyObject
    /\ before = EmptyObject
    /\ last = NoCall
    /\ calls = 0
    /\ src = <<>>
    /\ srcBefore = <<>>
    /\ lastItem = NoItemCall
    /\ lastValid = NoValidCall
    /\ apiKey = 0
    /\ fetchDefined = TRUE
    /\ inflight = NoRequest
    /\ requests = 0
    /\ pending = {}

\* setWeatherData(data)
SetWeatherData(data) ==
    /\ weatherData' = data
    /\ before' = data
    /\ last' = [NoCall EXCEPT !.op = "setWeatherData"]
    /\ calls' = 0
    /\ UNCHANGED <<itemVars, lastValid, fetchVars>>

\* a clear that leaves an empty days array behind
clearLeavesDays == Obj([days |-> <<>>])

\* clearWeatherData(): this.#weatherData = {}
clearWeatherData == EmptyObject

\* clearWeatherData(); calls keeps the number of calls made since the load
ClearWeatherData ==
    /\ weatherData' = clearWeatherData
    /\ before' = EmptyObject
    /\ last' = [NoCall EXCEPT !.op = "clearWeatherData"]
    /\ calls' = calls
    /\ UNCHANGED <<itemVars, lastValid, fetchVars>>

\* get<Field>OnDay(dayInfo)
GetOnDay(dayInfo, F) ==
    /\ calls < MaxCalls
    /\ LET o == GetFieldOnDay(weatherData, dayInfo, F)
       IN  last' = [NoCall EXCEPT !.op = "getOnDay", !.day = dayInfo, !.field = F,
                                  !.thrown = o.thrown, !.ret = o.value]
    /\ before' = weatherData
    /\ calls' = calls + 1
    /\ UNCHANGED <<weatherData, itemVars, lastValid, fetchVars>>

\* set<Field>OnDay(dayInfo, value)
SetOnDay(dayInfo, F, value) ==
    /\ calls < MaxCalls
    /\ LET o == SetFieldOnDay(weatherData, dayInfo, F, value)
       IN  /\ weatherData' = o.doc
           /\ last' = [NoCall EXCEPT !.op = "setOnDay", !.day = dayInfo,
                                     !.field = F, !.value = value,
                                     !.thrown = o.thrown]
    /\ before' = weatherData
    /\ calls' = calls + 1
    /\ UNCHANGED <<itemVars, lastValid, fetchVars>>

\* get<Field>AtDatetime(dayInfo, timeInfo)
GetAtDatetime(dayInfo, timeInfo, F) ==
    /\ calls < MaxCalls
    /\ LET o == getTempAtDatetime(weatherData, dayInfo, timeInfo, F)
       IN  last' = [NoCall EXCEPT !.op = "getAtDatetime", !.day = dayInfo,
                                  !.time = timeInfo, !.field = F,
                                  !.thrown = o.thrown, !.ret = o.value,
                                  !.lookups = o.lookups]
    /\ before' = weatherData
    /\ calls' = calls + 1
    /\ UNCHANGED <<weatherData, itemVars, lastValid, fetchVars>>

\* set<Field>AtDatetime(dayInfo, timeInfo, value)
SetAtDatetime(dayInfo, timeInfo, F, value) ==
    /\ calls < MaxCalls
    /\ LET o == setTempAtDatetime(weatherData, dayInfo, timeInfo, F, value)
       IN  /\ weatherData' = o.doc
           /\ last' = [NoCall EXCEPT !.op = "setAtDatetime", !.day = dayInfo,
                                     !.time = timeInfo, !.field = F,
                                     !.value = value, !.thrown = o.thrown,
                                     !.lookups = o.lookups]
    /\ before' = weatherData
    /\ calls' = calls + 1
    /\ UNCHANGED <<itemVars, lastValid, fetchVars>>

\* updateDataAtDatetime(dayInfo, timeInfo, data)
UpdateDataAtDatetime(dayInfo, timeInfo, data) ==
    /\ calls < MaxCalls
    /\ LET o == updateDataAtDatetime(weatherData, dayInfo, timeInfo, data)
       IN  /\ weatherData' = o.doc
           /\ last' = [NoCall EXCEPT !.op = "updateDataAtDatetime",
                                     !.day = dayInfo, !.time = timeInfo,
                                     !.data = data, !.thrown = o.thrown]
    /\ before' = weatherData
    /\ calls' = calls + 1
    /\ UNCHANGED <<itemVars, lastValid, fetchVars>>

\* setDataAtDatetime(dayInfo, timeInfo, data)
SetDataAtDatetime(dayInfo, timeInfo, data) ==
    /\ calls < MaxCalls
    /\ LET o == setDataAtDatetime(weatherData, dayInfo, timeInfo, data)
       IN  /\ weatherData' = o.doc
           /\ last' = [NoCall EXCEPT !.op = "setDataAtDatetime",
                                     !.day = dayInfo, !.time = timeInfo,
                                     !.data = data, !.thrown = o.thrown]
    /\ before' = weatherData
    /\ calls' = calls + 1
    /\ UNCHANGED <<itemVars, lastValid, fetchVars>>

\* getLatitude(), getLongitude(), getTzoffset(), getQueryCost()
GetTop(F) ==
    /\ calls < MaxCalls
    /\ LET o == GetTopField(weatherData, F)
       IN  last' = [NoCall EXCEPT !.op = "getTop", !.field = F,
                                  !.thrown = o.thrown, !.ret = o.value]
    /\ before' = weatherData
    /\ calls' = calls + 1
    /\ UNCHANGED <<weatherData, itemVars, lastValid, fetchVars>>

\* setLatitude(value), setLongitude(value), setTzoffset(value),
\* setQueryCost(value)
SetTop(F, value) ==
    /\ calls < MaxCalls
    /\ LET o == SetTopField(weatherData, F, value)
       IN  /\ weatherData' = o.doc
           /\ last' = [NoCall EXCEPT !.op = "setTop", !.field = F,
                                     !.value = value, !.thrown = o.thrown]
    /\ before' = weatherData
    /\ calls' = calls + 1
    /\ UNCHANGED <<itemVars, lastValid, fetchVars>>

\* getWeatherHourlyData(elements)
GetWeatherHourlyData(elements) ==
    /\ calls < MaxCalls
    /\ LET o == getWeatherHourlyData(weatherData, elements)
       IN  last' = [NoCall EXCEPT !.op = "getWeatherHourlyData",
                                  !.elements = elements,
                                  !.thrown = o.thrown, !.ret = o.value,
                                  !.series = o.arr]
    /\ before' = weatherData
    /\ calls' = calls + 1
    /\ UNCHANGED <<weatherData, itemVars, lastValid, fetchVars>>

\* getHourlyDatetimes()
GetHourlyDatetimes ==
    /\ calls < MaxCalls
    /\ LET o == getHourlyDatetimes(weatherData)
       IN  last' = [NoCall EXCEPT !.op = "getHourlyDatetimes",
                                  !.thrown = o.thrown, !.ret = o.value,
                                  !.series = o.arr]
    /\ before' = weatherData
    /\ calls' = calls + 1
    /\ UNCHANGED <<weatherData, itemVars, lastValid, fetchVars>>

\* setDataOnDay(dayInfo, data).  The ordinals it is called with go from 0 to
\* the length of the days: an assignment at a negative index or beyond the
\* length leaves an array with a named property or with holes, which the
\* documents of the model do not have.
SetDataOnDay(dayInfo, data) ==
    /\ calls < MaxCalls
    /\ (TypeOf(dayInfo) = "number" /\ ArrayRef(weatherData, "days").def)
          => dayInfo.v \in 0..Len(weatherData["days"])
    /\ LET o == setDataOnDay(weatherData, dayInfo, data)
       IN  /\ weatherData' = o.doc
           /\ last' = [NoCall EXCEPT !.op = "setDataOnDay", !.day = dayInfo,
                                     !.data = [isObj |-> TRUE, obj |-> data],
                                     !.thrown = o.thrown]
    /\ before' = weatherData
    /\ calls' = calls + 1
    /\ UNCHANGED <<itemVars, lastValid, fetchVars>>

\* setHourlyDataOnDay(dayInfo, data)
SetHourlyDataOnDay(dayInfo, data) ==
    /\ calls < MaxCalls
    /\ LET o == setHourlyDataOnDay(weatherData, dayInfo, data)
       IN  /\ weatherData' = o.doc
           /\ last' = [NoCall EXCEPT !.op = "setHourlyDataOnDay",
                                     !.day = dayInfo, !.series = data,
                                     !.thrown = o.thrown]
    /\ before' = weatherData
    /\ calls' = calls + 1
    /\ UNCHANGED <<itemVars, lastValid, fetchVars>>

\* A load forgets what came before it: the store is loaded before the calls
\* whose number MaxCalls bounds, not between them.
Next ==
    \/ calls = 0 /\ \E data \in SampleDocs : SetWeatherData(data)
    \/ ClearWeatherData
    \/ \E dayInfo \in DayIds, data \in DayDataArgs : SetDataOnDay(dayInfo, data)
    \/ \E dayInfo \in DayIds, data \in HoursArgs :
          SetHourlyDataOnDay(dayInfo, data)
    \/ \E elements \in ElementLists : GetWeatherHourlyData(elements)
    \/ GetHourlyDatetimes
    \/ \E F \in TopFields : GetTop(F)
    \/ \E F \in TopFields : \E value \in TopValues(F) : SetTop(F, value)
    \/ \E dayInfo \in DayIds, F \in DayFields : GetOnDay(dayInfo, F)
    \/ \E dayInfo \in DayIds, F \in DayFields, value \in Values :
          SetOnDay(dayInfo, F, value)
    \/ \E dayInfo \in DayIds, timeInfo \in TimeIds, F \in HourFields :
          GetAtDatetime(dayInfo, timeInfo, F)
    \/ \E dayInfo \in DayIds, timeInfo \in TimeIds, F \in HourFields,
          value \in HourValues :
          SetAtDatetime(dayInfo, timeInfo, F, value)
    \/ \E dayInfo \in DayIds, timeInfo \in TimeIds, data \in HourDataArgs :
          UpdateDataAtDatetime(dayInfo, timeInfo, data)
    \/ \E dayInfo \in DayIds, timeInfo \in TimeIds,
          data \in {d \in HourDataArgs : d.isObj} :
          SetDataAtDatetime(dayInfo, timeInfo, data)

Spec == Init /\ [][Next]_vars

-----------------------------------------------------------------------------
(* The static item helpers called on an array of the caller's. *)

\* item i of an array, with datetime d
Item(i, d) == Obj([datetime |-> Str(d), temp |-> Num(i), icon |-> Str(i)])

\* arrays of up to MaxItems items over two datetimes: several items may carry
\* the same datetime
ItemArrays ==
    UNION {{[i \in 1..n |-> Item(i, f[i])] : f \in [1..n -> {1, 2}]} :
             n \in 0..MaxItems}

ItemIds == Ids(MaxItems)

\* the data argument: an object (with or without a datetime of its own), or
\* a value that is no object
DataArgs ==
    {[isObj |-> TRUE, obj |-> EmptyObject],
     [isObj |-> TRUE, obj |-> Obj([temp |-> Num(0)])],
     [isObj |-> TRUE, obj |-> Obj([datetime |-> Str(2), temp |-> Num(7)])],
     [isObj |-> TRUE, obj |-> Obj([datetime |-> Str(9)])],
     [isObj |-> FALSE, obj |-> EmptyObject]}

InitItem ==
    /\ weatherData = EmptyObject
    /\ before = EmptyObject
    /\ last = NoCall
    /\ calls = 0
    /\ src \in ItemArrays
    /\ srcBefore = src
    /\ lastItem = NoItemCall
    /\ lastValid = NoValidCall
    /\ apiKey = 0
    /\ fetchDefined = TRUE
    /\ inflight = NoRequest
    /\ requests = 0
    /\ pending = {}

\* Weather.filterItemByDatetimeVal(src, datetimeVal)
FilterItem(datetimeVal) ==
    /\ calls < MaxCalls
    /\ LET o == filterItemByDatetimeVal([def |-> TRUE, arr |-> src], datetimeVal)
       IN  lastItem' = [NoItemCall EXCEPT !.op = "filterItem", !.id = datetimeVal,
                                          !.thrown = o.thrown, !.idx = o.idx]
    /\ srcBefore' = src
    /\ calls' = calls + 1
    /\ UNCHANGED <<src, weatherData, before, last, lastValid, fetchVars>>

\* Weather.setItemByDatetimeVal(src, datetimeVal, data)
SetItem(datetimeVal, data) ==
    /\ calls < MaxCalls
    /\ LET o == setItemByDatetimeVal(src, datetimeVal, data)
       IN  /\ src' = o.arr
           /\ lastItem' = [NoItemCall EXCEPT !.op = "setItem", !.id = datetimeVal,
                                             !.data = data, !.thrown = o.thrown]
    /\ srcBefore' = src
    /\ calls' = calls + 1
    /\ UNCHANGED <<weatherData, before, last, lastValid, fetchVars>>

\* Weather.updateItemByDatetimeVal(src, datetimeVal, data)
UpdateItem(datetimeVal, data) ==
    /\ calls < MaxCalls
    /\ LET o == updateItemByDatetimeVal(src, datetimeVal, data)
       IN  /\ src' = o.arr
           /\ lastItem' = [NoItemCall EXCEPT !.op = "updateItem", !.id = datetimeVal,
                                             !.data = data, !.thrown = o.thrown]
    /\ srcBefore' = src
    /\ calls' = calls + 1
    /\ UNCHANGED <<weatherData, before, last, lastValid, fetchVars>>

NextItem ==
    \/ \E datetimeVal \in ItemIds : FilterItem(datetimeVal)
    \/ \E datetimeVal \in ItemIds, data \in DataArgs : SetItem(datetimeVal, data)
    \/ \E datetimeVal \in ItemIds, data \in DataArgs : UpdateItem(datetimeVal, data)

SpecItem == InitItem /\ [][NextItem]_vars

-----------------------------------------------------------------------------
(* The static validators.  Here a string is the sequence of its characters, *)
(* so that a pattern is tested on what the string is made of.               *)

\* a string value with its characters: it is truthy when it has any
Text(chars) == [t |-> "string", v |-> Len(chars), s |-> chars]

\* \d
Digits == {"0", "1", "2", "3", "4", "5", "6", "7", "8", "9"}

\* \d+ on a whole string
AllDigits(s) == Len(s) > 0 /\ \A i \in 1..Len(s) : s[i] \in Digits

\* the list of dynamic dates of validateParamDate
DateKeywords ==
    {<<"t", "o", "d", "a", "y">>,
     <<"t", "o", "m", "o", "r", "r", "o", "w">>,
     <<"y", "e", "s", "t", "e", "r", "d", "a", "y">>,
     <<"y", "e", "a", "r", "t", "o", "d", "a", "t", "e">>,
     <<"m", "o", "n", "t", "h", "t", "o", "d", "a", "t", "e">>,
     <<"l", "a", "s", "t", "y", "e", "a", "r">>,
     <<"l", "a", "s", "t", "2", "4", "h", "o", "u", "r", "s">>,
     <<"n", "e", "x", "t", "w", "e", "e", "k", "e", "n", "d">>,
     <<"l", "a", "s", "t", "w", "e", "e", "k", "e", "n", "d">>}

\* (saturday|sunday|monday|tuesday|wednesday|thursday|friday)
Weekdays ==
    {<<"s", "a", "t", "u", "r", "d", "a", "y">>,
     <<"s", "u", "n", "d", "a", "y">>,
     <<"m", "o", "n", "d", "a", "y">>,
     <<"t", "u", "e", "s", "d", "a", "y">>,
     <<"w", "e", "d", "n", "e", "s", "d", "a", "y">>,
     <<"t", "h", "u", "r", "s", "d", "a", "y">>,
     <<"f", "r", "i", "d", "a", "y">>}

\* /^next(\d+)days$/ and /^last(\d+)days$/, pre being next or last
TestDays(pre, s) ==
    /\ Len(s) > Len(pre) + 4
    /\ SubSeq(s, 1, Len(pre)) = pre
    /\ SubSeq(s, Len(s) - 3, Len(s)) = <<"d", "a", "y", "s">>
    /\ AllDigits(SubSeq(s, Len(pre) + 1, Len(s) - 4))

\* /^next(saturday|...|friday)$/ and /^last(saturday|...|friday)$/
TestWeekday(pre, s) == \E w \in Weekdays : s = pre \o w

\* a pattern of fixed length: each position is a digit or the given character
TestTemplate(template, s) ==
    /\ Len(s) = Len(template)
    /\ \A i \in 1..Len(s) :
          IF template[i] = "d" THEN s[i] \in Digits ELSE s[i] = template[i]

\* /^\d{4,4}\-\d{2,2}\-\d{2,2}$/
TestDate(s) ==
    TestTemplate(<<"d", "d", "d", "d", "-", "d", "d", "-", "d", "d">>, s)

\* /^\d\d\d\d\-\d\d\-\d\dT\d\d\:\d\d\:\d\d$/
TestDatetime(s) ==
    TestTemplate(<<"d", "d", "d", "d", "-", "d", "d", "-", "d", "d", "T",
                   "d", "d", ":", "d", "d", ":", "d", "d">>, s)

\* the date pattern without its anchors: a date anywhere in the string
validateParamDateUnanchored(param) ==
    IF TypeOf(param) = "string"
    THEN IF \/ param.s \in DateKeywords
            \/ TestDays(<<"n", "e", "x", "t">>, param.s)
            \/ TestDays(<<"l", "a", "s", "t">>, param.s)
            \/ TestWeekday(<<"n", "e", "x", "t">>, param.s)
            \/ TestWeekday(<<"l", "a", "s", "t">>, param.s)
         THEN Return(param)
         ELSE IF \E a \in 1..Len(param.s) :
                    a + 9 <= Len(param.s) /\ TestDate(SubSeq(param.s, a, a + 9))
         THEN Return(param)
         ELSE IF TestDatetime(param.s) THEN Return(param)
         ELSE Throw("Error")
    ELSE IF TypeOf(param) = "number" THEN Return(param)
    ELSE Throw("TypeError")

\* Weather.validateParamDate(param)
validateParamDate(param) ==
    IF TypeOf(param) = "string"
    THEN IF \/ param.s \in DateKeywords
            \/ TestDays(<<"n", "e", "x", "t">>, param.s)
            \/ TestDays(<<"l", "a", "s", "t">>, param.s)
            \/ TestWeekday(<<"n", "e", "x", "t">>, param.s)
            \/ TestWeekday(<<"l", "a", "s", "t">>, param.s)
         THEN Return(param)
         ELSE IF TestDate(param.s) THEN Return(param)
         ELSE IF TestDatetime(param.s) THEN Return(param)
         ELSE Throw("Error")
    ELSE IF TypeOf(param) = "number" THEN Return(param)
    ELSE Throw("TypeError")

\* the list of sections of validateParamInclude
IncludeSections ==
    {<<"d", "a", "y", "s">>,
     <<"h", "o", "u", "r", "s">>,
     <<"m", "i", "n", "u", "t", "e", "s">>,
     <<"a", "l", "e", "r", "t", "s">>,
     <<"c", "u", "r", "r", "e", "n", "t">>,
     <<"e", "v", "e", "n", "t", "s">>,
     <<"o", "b", "s">>,
     <<"r", "e", "m", "o", "t", "e">>,
     <<"f", "c", "s", "t">>,
     <<"s", "t", "a", "t", "s">>,
     <<"s", "t", "a", "t", "s", "f", "c", "s", "t">>}

\* the list of elements of validateParamElements: icon is there twice, which
\* makes no difference to includes()
ElementNames ==
    {<<"t", "e", "m", "p", "m", "a", "x">>,
     <<"t", "e", "m", "p", "m", "i", "n">>,
     <<"t", "e", "m", "p">>,
     <<"f", "e", "e", "l", "s", "l", "i", "k", "e", "m", "a", "x">>,
     <<"f", "e", "e", "l", "s", "l", "i", "k", "e", "m", "i", "n">>,
     <<"f", "e", "e", "l", "s", "l", "i", "k", "e">>,
     <<"d", "e", "w">>,
     <<"h", "u", "m", "i", "d", "i", "t", "y">>,
     <<"p", "r", "e", "c", "i", "p">>,
     <<"p", "r", "e", "c", "i", "p", "p", "r", "o", "b">>,
     <<"p", "r", "e", "c", "i", "p", "c", "o", "v", "e", "r">>,
     <<"p", "r", "e", "c", "i", "p", "t", "y", "p", "e">>,
     <<"s", "n", "o", "w">>,
     <<"s", "n", "o", "w", "d", "e", "p", "t", "h">>,
     <<"w", "i", "n", "d", "g", "u", "s", "t">>,
     <<"w", "i", "n", "d", "s", "p", "e", "e", "d">>,
     <<"w", "i", "n", "d", "d", "i", "r">>,
     <<"p", "r", "e", "s", "s", "u", "r", "e">>,
     <<"c", "l", "o", "u", "d", "c", "o", "v", "e", "r">>,
     <<"v", "i", "s", "i", "b", "i", "l", "i", "t", "y">>,
     <<"s", "o", "l", "a", "r", "r", "a", "d", "i", "a", "t", "i", "o", "n">>,
     <<"s", "o", "l", "a", "r", "e", "n", "e", "r", "g", "y">>,
     <<"u", "v", "i", "n", "d", "e", "x">>,
     <<"s", "u", "n", "r", "i", "s", "e">>,
     <<"s", "u", "n", "r", "i", "s", "e", "E", "p", "o", "c", "h">>,
     <<"s", "u", "n", "s", "e", "t">>,
     <<"s", "u", "n", "s", "e", "t", "E", "p", "o", "c", "h">>,
     <<"m", "o", "o", "n", "p", "h", "a", "s", "e">>,
     <<"c", "o", "n", "d", "i", "t", "i", "o", "n", "s">>,
     <<"d", "e", "s", "c", "r", "i", "p", "t", "i", "o", "n">>,
     <<"i", "c", "o", "n">>,
     <<"i", "c", "o", "n">>,
     <<"s", "t", "a", "t", "i", "o", "n", "s">>,
     <<"s", "o", "u", "r", "c", "e">>}

\* param.join(',')
RECURSIVE Join(_)
Join(param) ==
    IF Len(param) = 0 THEN <<>>
    ELSE IF Len(param) = 1 THEN param[1].s
    ELSE param[1].s \o <<",">> \o Join(Tail(param))

\* a loop that validates every value and throws at the end, not at the first
\* invalid value: the error is the one of the last invalid value
validateListLast(param, list) ==
    LET invalid == {i \in 1..Len(param) :
                      ~(TypeOf(param[i]) = "string" /\ param[i].s \in list)}
    IN  IF invalid = {} THEN Return(Text(Join(param)))
        ELSE LET i == CHOOSE i \in invalid : \A j \in invalid : i >= j
             IN  IF TypeOf(param[i]) = "string" THEN Throw("Error")
                 ELSE Throw("TypeError")

\* for(let p of param){ ... throw ... } return param.join(','): the loop of
\* validateParamInclude and validateParamElements, which throws at the first
\* value that is no string (TypeError) or is not in the list (Error)
validateList(param, list) ==
    LET invalid == {i \in 1..Len(param) :
                      ~(TypeOf(param[i]) = "string" /\ param[i].s \in list)}
    IN  IF invalid = {} THEN Return(Text(Join(param)))
        ELSE LET i == CHOOSE i \in invalid : \A j \in invalid : i <= j
             IN  IF TypeOf(param[i]) = "string" THEN Throw("Error")
                 ELSE Throw("TypeError")

\* the unit groups of validateParamUnitGroup
UnitGroups == {<<"u", "s">>, <<"u", "k">>, <<"m", "e", "t", "r", "i", "c">>,
               <<"b", "a", "s", "e">>}

\* Weather.validateParamUnitGroup(param)
validateParamUnitGroup(param) ==
    IF TypeOf(param) = "string"
    THEN IF param.s \in UnitGroups THEN Return(param) ELSE Throw("Error")
    ELSE Throw("TypeError")

\* Weather.validateParamInclude(...param)
validateParamInclude(param) == validateList(param, IncludeSections)

\* Weather.validateParamElements(...param)
validateParamElements(param) == validateList(param, ElementNames)

-----------------------------------------------------------------------------
(* The static validators called with arguments of the caller's. *)

\* strings that are no dynamic date: wrong case, trailing blank, empty, ...
NoKeywords ==
    {<<"T", "O", "D", "A", "Y">>,
     <<"t", "o", "d", "a", "y", " ">>,
     <<>>,
     <<"n", "e", "x", "t", "w", "e", "e", "k">>,
     <<"t", "o", "m", "o", "r", "o", "w">>}

\* next / last and a prefix in the wrong case
RelPrefixes == {<<"n", "e", "x", "t">>, <<"l", "a", "s", "t">>, <<"N", "e", "x", "t">>}

\* the N of next<N>days: numbers of one to three digits, and what is no number
DayCounts == {<<"0">>, <<"1">>, <<"1", "0">>, <<"3", "6", "5">>, <<"5">>, <<"0", "0", "7">>, <<>>, <<"-", "1">>, <<"1", "a">>}

DaySuffixes == {<<"d", "a", "y", "s">>, <<"d", "a", "y">>}

\* weekday names, one in the wrong case, and a word that is no weekday
WeekdayWords == Weekdays \cup {<<"S", "u", "n", "d", "a", "y">>, <<"f", "u", "n", "d", "a", "y">>}

\* dates: years of 4, 2 and 5 digits, months of 2 and 1, two separators
DateStrings ==
    {y \o sep \o m \o sep \o <<"0", "7">> :
        y \in {<<"2", "0", "2", "4">>, <<"2", "5">>, <<"2", "0", "2", "4", "5">>},
        m \in {<<"0", "3">>, <<"3">>},
        sep \in {<<"-">>, <<"/">>}}

\* datetimes: with T and with a blank, with and without seconds, with a zone
DatetimeStrings ==
    {<<"2", "0", "2", "5", "-", "0", "3", "-", "0", "7">> \o sep \o tm :
        sep \in {<<"T">>, <<" ">>},
        tm \in {<<"0", "4", ":", "3", "0", ":", "0", "0">>,
               <<"0", "4", ":", "0", "0">>,
               <<"0", "4", ":", "3", "0", ":", "0", "0", "Z">>,
               <<"4", ":", "3", "0", ":", "0", "0">>}}

\* the arguments validateParamDate is called with
DateArgs ==
    {Text(w) : w \in DateKeywords \cup NoKeywords
                     \cup {p \o n \o x : p \in RelPrefixes, n \in DayCounts,
                                         x \in DaySuffixes}
                     \cup {p \o w : p \in RelPrefixes, w \in WeekdayWords}
                     \cup DateStrings \cup DatetimeStrings}
    \cup {Num(0), Num(1741305600), False, Null, Undefined}

\* values handed to validateParamInclude: sections, strings that are none,
\* and values that are no strings
IncludeValues ==
    {Text(w) : w \in {<<"d", "a", "y", "s">>,
                     <<"h", "o", "u", "r", "s">>,
                     <<"s", "t", "a", "t", "s", "f", "c", "s", "t">>,
                     <<"D", "a", "y", "s">>,
                     <<"t", "e", "m", "p">>}}
    \cup {False, Num(1)}

\* the argument lists of validateParamInclude, of 0 to MaxArgs values
IncludeArgs == UNION {[1..n -> IncludeValues] : n \in 0..MaxArgs}

\* values handed to validateParamElements: the element names, the field
\* names that are no element, strings in the wrong case, values of other types
ElementValues ==
    {Text(w) : w \in ElementNames \cup {<<"s", "e", "v", "e", "r", "e", "r", "i", "s", "k">>,
                                     <<"d", "a", "t", "e", "t", "i", "m", "e">>,
                                     <<"d", "a", "t", "e", "t", "i", "m", "e", "E", "p", "o", "c", "h">>,
                                     <<"T", "e", "m", "p">>,
                                     <<"d", "a", "y", "s">>,
                                     <<>>}}
    \cup {False}

\* the argument lists of validateParamElements: every single value, and the
\* lists of up to MaxArgs of a few of them
ElementArgs ==
    {<<x>> : x \in ElementValues}
    \cup UNION {[1..n -> {Text(<<"t", "e", "m", "p">>), Text(<<"i", "c", "o", "n">>), Text(<<"T", "E", "M", "P">>), False}] :
                  n \in 0..MaxArgs}

\* Weather.validateParamDate(param)
ValidateParamDate(param) ==
    /\ LET o == validateParamDate(param)
       IN  lastValid' = [op |-> "validateParamDate", args |-> <<param>>,
                         thrown |-> o.thrown, ret |-> o.value]
    /\ UNCHANGED <<storeVars, itemVars, fetchVars>>

\* Weather.validateParamInclude(...param)
ValidateParamInclude(param) ==
    /\ LET o == validateParamInclude(param)
       IN  lastValid' = [op |-> "validateParamInclude", args |-> param,
                         thrown |-> o.thrown, ret |-> o.value]
    /\ UNCHANGED <<storeVars, itemVars, fetchVars>>

\* Weather.validateParamElements(...param)
ValidateParamElements(param) ==
    /\ LET o == validateParamElements(param)
       IN  lastValid' = [op |-> "validateParamElements", args |-> param,
                         thrown |-> o.thrown, ret |-> o.value]
    /\ UNCHANGED <<storeVars, itemVars, fetchVars>>

\* the arguments validateParamUnitGroup is called with
UnitGroupArgs ==
    {Text(w) : w \in UnitGroups \cup {<<"U", "S">>, <<"i", "m", "p", "e", "r", "i", "a", "l">>, <<>>}}
    \cup {Num(1), False, Undefined}

\* Weather.validateParamUnitGroup(param)
ValidateParamUnitGroup(param) ==
    /\ LET o == validateParamUnitGroup(param)
       IN  lastValid' = [op |-> "validateParamUnitGroup", args |-> <<param>>,
                         thrown |-> o.thrown, ret |-> o.value]
    /\ UNCHANGED <<storeVars, itemVars, fetchVars>>

NextValidate ==
    \/ \E param \in UnitGroupArgs : ValidateParamUnitGroup(param)
    \/ \E param \in DateArgs : ValidateParamDate(param)
    \/ \E param \in IncludeArgs : ValidateParamInclude(param)
    \/ \E param \in ElementArgs : ValidateParamElements(param)

SpecValidate == Init /\ [][NextValidate]_vars

-----------------------------------------------------------------------------
(* fetchWeatherData: the call up to its request, and what it does with the *)
(* response on each of its two transports.                                  *)

\* the state of the promise fetchWeatherData returned: settled is "pending",
\* "resolved" or "rejected"; error names what it was rejected with, or the
\* exception that escaped (uncaught); doc is the document it resolved with
Pending(transport, url) ==
    [settled |-> "pending", error |-> "none", uncaught |-> FALSE,
     doc |-> EmptyObject,
     request |-> [transport |-> transport, url |-> url]]
Rejected(error) ==
    [settled |-> "rejected", error |-> error, uncaught |-> FALSE,
     doc |-> EmptyObject, request |-> NoRequest]
Resolved(doc) ==
    [settled |-> "resolved", error |-> "none", uncaught |-> FALSE,
     doc |-> doc, request |-> NoRequest]
Uncaught(error) ==
    [settled |-> "pending", error |-> error, uncaught |-> TRUE,
     doc |-> EmptyObject, request |-> NoRequest]

\* the url of the request: the dates are in its path when fromDate is not
\* empty, and unitGroup, include and elements are in its query as they came
Url(location, params) ==
    [path |-> IF Truthy(params.fromDate)
              THEN <<location, params.fromDate, params.toDate>>
              ELSE <<location>>,
     unitGroup |-> params.unitGroup,
     include |-> params.include,
     elements |-> params.elements]

\* the two tests in the other order
fetchTestsLocationFirst(key, fetch, location, params) ==
    IF ~Truthy(location) THEN Rejected("NoLocation")
    ELSE IF key = 0 THEN Rejected("NoApiKey")
    ELSE IF fetch THEN Pending("fetch", Url(location, params))
    ELSE Pending("https", Url(location, params))

\* fetchWeatherData up to the request: the two tests, then fetch(url) when
\* globalThis.fetch is defined, https.request(url, ...) when not
fetchWeatherData(key, fetch, location, params) ==
    IF key = 0 THEN Rejected("NoApiKey")
    ELSE IF ~Truthy(location) THEN Rejected("NoLocation")
    ELSE IF fetch THEN Pending("fetch", Url(location, params))
    ELSE Pending("https", Url(location, params))

\* after await fetch(url): a rejected fetch and a rejected response.json()
\* reject the call, !response.ok throws the response's text, and a parsed
\* body is stored and returned
fetchResponse(doc, response) ==
    CASE response.kind = "failed" ->
            [out |-> Rejected("NetworkError"), doc |-> doc]
      [] response.kind = "status" ->
            [out |-> Rejected("ResponseText"), doc |-> doc]
      [] response.kind = "unparsable" ->
            [out |-> Rejected("SyntaxError"), doc |-> doc]
      [] response.kind = "ok" ->
            [out |-> Resolved(response.body), doc |-> response.body]

\* the listeners of https.request: on 'end', a status of 2xx resolves with
\* JSON.parse(body) and any other rejects with the body.  this.#weatherData
\* is not assigned.  An exception of JSON.parse is thrown in the listener,
\* outside the promise's executor, and a failed request emits 'error', which
\* has no listener: both escape as uncaught exceptions and the promise stays
\* pending
httpsResponse(doc, response) ==
    CASE response.kind = "failed" ->
            [out |-> Uncaught("NetworkError"), doc |-> doc]
      [] response.kind = "status" ->
            [out |-> Rejected("ResponseText"), doc |-> doc]
      [] response.kind = "unparsable" ->
            [out |-> Uncaught("SyntaxError"), doc |-> doc]
      [] response.kind = "ok" ->
            [out |-> Resolved(response.body), doc |-> doc]

\* getWeatherData() without elements: return this.#weatherData
getWeatherData(doc) == doc

\* the location argument: a name, the empty string, none
Locations == {Str(1), Str(0), Undefined}

\* fromDate, toDate, unitGroup, include and elements: the defaults, values
\* the validators accept, and for each parameter one its validator rejects
DefaultParams ==
    [fromDate |-> Text(<<>>), toDate |-> Text(<<>>),
     unitGroup |-> Text(<<"m", "e", "t", "r", "i", "c">>),
     include |-> Text(<<>>), elements |-> Text(<<>>)]
ValidParams ==
    [fromDate |-> Text(<<"2", "0", "2", "4", "-", "0", "3", "-", "0", "7">>),
     toDate |-> Text(<<"t", "o", "d", "a", "y">>),
     unitGroup |-> Text(<<"u", "s">>),
     include |-> Text(<<"d", "a", "y", "s">>),
     elements |-> Text(<<"t", "e", "m", "p">>)]
FetchParams ==
    {DefaultParams, ValidParams,
     [ValidParams EXCEPT !.fromDate = Text(<<"T", "O", "D", "A", "Y">>)],
     [ValidParams EXCEPT !.toDate = Text(<<"2", "5", "-", "0", "3", "-", "0", "7">>)],
     [ValidParams EXCEPT !.unitGroup = Text(<<"i", "m", "p", "e", "r", "i", "a", "l">>)],
     [ValidParams EXCEPT !.include = Text(<<"D", "a", "y", "s">>)],
     [ValidParams EXCEPT !.elements = Text(<<"T", "e", "m", "p">>)]}

\* what the transport answers: a success with a JSON document, a success
\* with a body that is no JSON, a status that is no success, no answer
Responses ==
    {[kind |-> "ok", body |-> d] : d \in {Doc(1), Doc(MaxDays)}}
    \cup {[kind |-> k, body |-> EmptyObject] :
            k \in {"unparsable", "status", "failed"}}

\* new Weather(apiKey), in a runtime that has globalThis.fetch or has not
InitFetch ==
    /\ weatherData = EmptyObject
    /\ before = EmptyObject
    /\ last = NoCall
    /\ calls = 0
    /\ src = <<>>
    /\ srcBefore = <<>>
    /\ lastItem = NoItemCall
    /\ lastValid = NoValidCall
    /\ apiKey \in {0, 1}
    /\ fetchDefined \in BOOLEAN
    /\ inflight = NoRequest
    /\ requests = 0
    /\ pending = {}

\* fetchWeatherData(location), up to its first await
FetchWeatherData(location, params) ==
    /\ calls < MaxCalls
    /\ inflight = NoRequest
    /\ LET o == fetchWeatherData(apiKey, fetchDefined, location, params)
       IN  /\ last' = [NoCall EXCEPT !.op = "fetchWeatherData",
                                     !.location = location,
                                     !.params = params,
                                     !.settled = o.settled, !.error = o.error]
           /\ inflight' = o.request
           /\ requests' = IF o.request = NoRequest THEN 0 ELSE 1
    /\ before' = weatherData
    /\ calls' = calls + 1
    /\ UNCHANGED <<weatherData, apiKey, fetchDefined, pending, itemVars,
                   lastValid>>

\* the continuation of fetchWeatherData after await fetch(url)
FetchResponse(response) ==
    /\ inflight.transport = "fetch"
    /\ LET o == fetchResponse(weatherData, response)
       IN  /\ weatherData' = o.doc
           /\ last' = [last EXCEPT !.settled = o.out.settled,
                                   !.error = o.out.error,
                                   !.uncaught = o.out.uncaught,
                                   !.doc = o.out.doc]
    /\ inflight' = NoRequest
    /\ UNCHANGED <<before, calls, requests, apiKey, fetchDefined, pending,
                   itemVars, lastValid>>

\* the 'end' listener of the response of https.request, or its 'error' event
HttpsResponse(response) ==
    /\ inflight.transport = "https"
    /\ LET o == httpsResponse(weatherData, response)
       IN  /\ weatherData' = o.doc
           /\ last' = [last EXCEPT !.settled = o.out.settled,
                                   !.error = o.out.error,
                                   !.uncaught = o.out.uncaught,
                                   !.doc = o.out.doc]
    /\ inflight' = NoRequest
    /\ UNCHANGED <<before, calls, requests, apiKey, fetchDefined, pending,
                   itemVars, lastValid>>

\* the caller awaits fetchWeatherData before its next call
NextFetch ==
    \/ \E location \in Locations, params \in FetchParams :
            FetchWeatherData(location, params)
    \/ \E response \in Responses : FetchResponse(response)
    \/ \E response \in Responses : HttpsResponse(response)
    \/ inflight = NoRequest /\ \E data \in SampleDocs : SetWeatherData(data)
    \/ inflight = NoRequest /\ ClearWeatherData

SpecFetch == InitFetch /\ [][NextFetch]_vars

-----------------------------------------------------------------------------
(* Calls of fetchWeatherData that are not awaited: the method suspends     *)
(* once, at await fetch(url) or at the promise around https.request, and   *)
(* the caller goes on with other calls of the store meanwhile.             *)

\* fetchWeatherData calls that may be suspended at once
MaxInflight == 2

\* new Weather(apiKey) with a key, in a runtime that has globalThis.fetch or
\* has not
InitOverlap ==
    /\ weatherData = EmptyObject
    /\ before = EmptyObject
    /\ last = NoCall
    /\ calls = 0
    /\ src = <<>>
    /\ srcBefore = <<>>
    /\ lastItem = NoItemCall
    /\ lastValid = NoValidCall
    /\ apiKey = 1
    /\ fetchDefined \in BOOLEAN
    /\ inflight = NoRequest
    /\ requests = 0
    /\ pending = {}

\* fetchWeatherData(location), up to its await; the call is not awaited
StartFetch(location, params) ==
    /\ Cardinality(pending) < MaxInflight
    /\ LET o == fetchWeatherData(apiKey, fetchDefined, location, params)
           id == CHOOSE n \in 1..MaxInflight : \A r \in pending : r.id # n
       IN  /\ last' = [NoCall EXCEPT !.op = "fetchWeatherData",
                                     !.location = location,
                                     !.params = params,
                                     !.settled = o.settled, !.error = o.error]
           /\ pending' = IF o.request = NoRequest THEN pending
                         ELSE pending \cup {[id |-> id, request |-> o.request]}
    /\ before' = weatherData
    /\ UNCHANGED <<weatherData, calls, apiKey, fetchDefined, inflight,
                   requests, itemVars, lastValid>>

\* the continuation of one suspended call: after await fetch(url), or the
\* listeners of https.request; a stored document is a loaded one
CompleteFetch(id, response) ==
    /\ \E r \in pending : r.id = id
    /\ LET r == CHOOSE p \in pending : p.id = id
           o == IF r.request.transport = "fetch"
                THEN fetchResponse(weatherData, response)
                ELSE httpsResponse(weatherData, response)
       IN  /\ weatherData' = o.doc
           /\ last' = [NoCall EXCEPT !.op = "fetchWeatherData",
                                     !.lookups = id,
                                     !.settled = o.out.settled,
                                     !.error = o.out.error,
                                     !.uncaught = o.out.uncaught,
                                     !.doc = o.out.doc]
           /\ calls' = IF o.doc = weatherData THEN calls ELSE 0
           /\ pending' = pending \ {r}
    /\ before' = weatherData
    /\ UNCHANGED <<apiKey, fetchDefined, inflight, requests, itemVars,
                   lastValid>>

\* calls are started, the store is read and written, and the suspended
\* calls are continued in any order
NextOverlap ==
    \/ \E location \in Locations : StartFetch(location, DefaultParams)
    \/ \E id \in 1..MaxInflight, response \in Responses :
            CompleteFetch(id, response)
    \/ \E F \in TopFields : \E value \in TopValues(F) : SetTop(F, value)
    \/ \E F \in TopFields : GetTop(F)
    \/ \E data \in SampleDocs : SetWeatherData(data)

SpecOverlap == InitOverlap /\ [][NextOverlap]_vars

-----------------------------------------------------------------------------
(* What the claims are stated with: the resolution rule of the             *)
(* specification, and the shape of a document.                             *)

\* resolveByIdentifier: the position a valid identifier resolves to in arr,
\* 0 when it resolves to nothing
Resolve(arr, id) ==
    IF id.t = "string"
    THEN IF \E i \in 1..Len(arr) : Prop(arr[i], "datetime") = id
         THEN CHOOSE i \in 1..Len(arr) :
                 /\ Prop(arr[i], "datetime") = id
                 /\ \A j \in 1..Len(arr) : Prop(arr[j], "datetime") = id => i <= j
         ELSE 0
    ELSE IF id.t = "number" /\ id.v \in 0..(Len(arr) - 1) THEN id.v + 1
    ELSE 0

HasDays(doc) == "days" \in DOMAIN doc

\* the position of the day a valid identifier resolves to, 0 when none
DayPos(doc, id) ==
    IF HasDays(doc) /\ ValidType(id) THEN Resolve(doc["days"], id) ELSE 0

HasHours(doc, i) == "hours" \in DOMAIN doc["days"][i]

\* the position of the hour of day i a valid identifier resolves to
HourPos(doc, i, id) ==
    IF i # 0 /\ HasHours(doc, i) /\ ValidType(id)
    THEN Resolve(doc["days"][i]["hours"], id)
    ELSE 0

\* every day-level property of every day is the same in the two documents
SameDayLevel(d1, d2) ==
    /\ Len(d1["days"]) = Len(d2["days"])
    /\ \A i \in 1..Len(d1["days"]) :
          /\ DOMAIN d1["days"][i] = DOMAIN d2["days"][i]
          /\ \A k \in DOMAIN d1["days"][i] \ {"hours"} :
                d1["days"][i][k] = d2["days"][i][k]

-----------------------------------------------------------------------------
(* The claims. *)

\* C1: after set<Field>OnDay(d, value) on a day identifier d that resolves,
\* get<Field>OnDay(d) returns exactly value, for every field and every value
\* written, 0, "" and null included.
C1_SetThenGetOnDay ==
    (last.op = "setOnDay" /\ DayPos(before, last.day) # 0)
        => /\ last.thrown = "none"
           /\ GetFieldOnDay(weatherData, last.day, last.field) = Return(last.value)

\* C2: on a document with a days array, a day identifier of valid type that
\* resolves to no day makes get<Field>OnDay return null, and set<Field>OnDay
\* return normally with the document, and so every later get, unchanged.
C2_UnresolvedDay ==
    (/\ last.op \in {"getOnDay", "setOnDay"}
     /\ HasDays(before)
     /\ ValidType(last.day)
     /\ DayPos(before, last.day) = 0)
        => /\ last.thrown = "none"
           /\ last.op = "getOnDay" => last.ret = Null
           /\ weatherData = before
           /\ \A d \in DayIds, F \in DayFields :
                 GetFieldOnDay(weatherData, d, F) = GetFieldOnDay(before, d, F)

\* a set with a negative ordinal on a document that has days
C2_Witness ==
    /\ last.op = "setOnDay"
    /\ HasDays(before)
    /\ Len(before["days"]) > 0
    /\ last.day.t = "number"
    /\ last.day.v < 0
    /\ last.thrown = "none"

\* C3 as stated: with a day identifier that is neither a string nor a number,
\* the per-field get and the per-field set both raise TypeError and the
\* document is unchanged.
C3_GetAndSetRaise ==
    (/\ last.op \in {"getOnDay", "setOnDay", "getAtDatetime", "setAtDatetime"}
     /\ ~ValidType(last.day))
        => /\ last.thrown = "TypeError"
           /\ weatherData = before

\* C3 amended: with a day identifier that is neither a string nor a number,
\* the per-field set raises TypeError, the per-field get returns null without
\* raising, and the document is unchanged by both.
C3_SetRaisesGetReturnsNull ==
    (/\ last.op \in {"getOnDay", "setOnDay", "getAtDatetime", "setAtDatetime"}
     /\ ~ValidType(last.day))
        => /\ last.op \in {"setOnDay", "setAtDatetime"} => last.thrown = "TypeError"
           /\ last.op \in {"getOnDay", "getAtDatetime"} =>
                 (last.thrown = "none" /\ last.ret = Null)
           /\ weatherData = before

\* a set with an identifier of invalid type on a document that has days
C3_Witness ==
    /\ last.op = "setOnDay"
    /\ ~ValidType(last.day)
    /\ HasDays(before)
    /\ Len(before["days"]) > 0
    /\ last.thrown = "TypeError"

C5_FilterIsResolve ==
    lastItem.op = "filterItem"
        => /\ src = srcBefore
           /\ ValidType(lastItem.id) =>
                 /\ lastItem.thrown = "none"
                 /\ lastItem.idx = Resolve(srcBefore, lastItem.id)
           /\ ~ValidType(lastItem.id) => lastItem.thrown = "TypeError"

\* a string that several items carry: the first of them is returned
C5_Witness ==
    /\ lastItem.op = "filterItem"
    /\ lastItem.id.t = "string"
    /\ lastItem.idx # 0
    /\ \E j \in (lastItem.idx + 1)..Len(src) :
          Prop(src[j], "datetime") = lastItem.id

\* C6: set<Field>AtDatetime raises TypeError whenever the day identifier or
\* the time identifier is neither a string nor a number, whether or not the
\* day resolves, and changes nothing then.
C6_SetAtDatetimeInvalidType ==
    (/\ last.op = "setAtDatetime"
     /\ ~ValidType(last.day) \/ ~ValidType(last.time))
        => /\ last.thrown = "TypeError"
           /\ weatherData = before

\* C7: set<Field>AtDatetime with two identifiers of valid type returns
\* normally and changes nothing when the day is not found, and when the day
\* is found and the time identifier matches none of its hours.
C7_SetAtDatetimeUnresolved ==
    (/\ last.op = "setAtDatetime"
     /\ HasDays(before)
     /\ ValidType(last.day)
     /\ ValidType(last.time)
     /\ \/ DayPos(before, last.day) = 0
        \/ /\ HasHours(before, DayPos(before, last.day))
           /\ HourPos(before, DayPos(before, last.day), last.time) = 0)
        => /\ last.thrown = "none"
           /\ weatherData = before

\* C8: after set<Field>AtDatetime(d, t, value) on a pair that resolves to an
\* hour, get<Field>AtDatetime(d, t) returns exactly value, and no other hour,
\* no other property of that hour and no day-level property has changed.
C8_SetThenGetAtDatetime ==
    LET i == DayPos(before, last.day)
        j == HourPos(before, i, last.time)
    IN  (last.op = "setAtDatetime" /\ i # 0 /\ j # 0)
           => /\ last.thrown = "none"
              /\ LET o == getTempAtDatetime(weatherData, last.day, last.time,
                                            last.field)
                 IN  o.thrown = "none" /\ o.value = last.value
              /\ SameDayLevel(weatherData, before)
              /\ \A a \in 1..Len(before["days"]) :
                    HasHours(before, a) =>
                       /\ HasHours(weatherData, a)
                       /\ Len(weatherData["days"][a]["hours"])
                             = Len(before["days"][a]["hours"])
                       /\ \A b \in 1..Len(before["days"][a]["hours"]) :
                             LET h1 == weatherData["days"][a]["hours"][b]
                                 h0 == before["days"][a]["hours"][b]
                             IN  IF a = i /\ b = j
                                 THEN \A k \in (DOMAIN h0) \ {last.field} :
                                         Prop(h1, k) = h0[k]
                                 ELSE h1 = h0

\* a 0 written by datetime strings over a value that was not 0
C8_Witness ==
    /\ last.op = "setAtDatetime"
    /\ last.day.t = "string"
    /\ last.time.t = "string"
    /\ DayPos(before, last.day) # 0
    /\ HourPos(before, DayPos(before, last.day), last.time) # 0
    /\ last.value = Num(0)
    /\ weatherData # before

C10_SetItemKeepsDatetime ==
    (lastItem.op = "setItem" /\ lastItem.thrown = "none")
        => /\ Len(src) = Len(srcBefore)
           /\ \A i \in 1..Len(srcBefore) :
                 Prop(src[i], "datetime") = Prop(srcBefore[i], "datetime")

\* a replacement that carries another datetime than the item it replaces
C10_Witness ==
    /\ lastItem.op = "setItem"
    /\ lastItem.thrown = "none"
    /\ Resolve(srcBefore, lastItem.id) # 0
    /\ "datetime" \in DOMAIN lastItem.data.obj
    /\ lastItem.data.obj["datetime"]
          # Prop(srcBefore[Resolve(srcBefore, lastItem.id)], "datetime")

\* C11: after setItemByDatetimeVal on an identifier that resolves, by string
\* or by ordinal, the item at the resolved position holds exactly the
\* properties of the new record, with the datetime the item had; no other
\* property of the old item survives, and the other items are as they were.
C11_SetItemReplaces ==
    LET i == Resolve(srcBefore, lastItem.id)
    IN  (lastItem.op = "setItem" /\ lastItem.thrown = "none" /\ i # 0)
           => /\ Len(src) = Len(srcBefore)
              /\ src[i] = Assign(lastItem.data.obj, "datetime",
                                 Prop(srcBefore[i], "datetime"))
              /\ \A j \in 1..Len(srcBefore) : j # i => src[j] = srcBefore[j]

\* C12: after updateItemByDatetimeVal on an identifier that resolves, by
\* string or by ordinal, the item has the properties of the original and of
\* the partial record: the datetime is the original's, every other property
\* of the partial record has the partial record's value, every property the
\* partial record lacks has the original's; the other items are as they were.
C12_UpdateItemMerges ==
    LET i == Resolve(srcBefore, lastItem.id)
        data == lastItem.data.obj
    IN  (lastItem.op = "updateItem" /\ lastItem.thrown = "none" /\ i # 0)
           => /\ Len(src) = Len(srcBefore)
              /\ DOMAIN src[i] = (DOMAIN srcBefore[i]) \cup (DOMAIN data)
              /\ \A k \in DOMAIN src[i] :
                    src[i][k] = IF k = "datetime" THEN srcBefore[i]["datetime"]
                                ELSE IF k \in DOMAIN data THEN data[k]
                                ELSE srcBefore[i][k]
              /\ \A j \in 1..Len(srcBefore) : j # i => src[j] = srcBefore[j]

\* a merge by ordinal of a partial record that has another datetime and a new
\* temp, into an item that has an icon
C12_Witness ==
    LET i == Resolve(srcBefore, lastItem.id)
    IN  /\ lastItem.op = "updateItem"
        /\ lastItem.thrown = "none"
        /\ lastItem.id.t = "number"
        /\ i # 0
        /\ "datetime" \in DOMAIN lastItem.data.obj
        /\ lastItem.data.obj["datetime"] # srcBefore[i]["datetime"]
        /\ "temp" \in DOMAIN lastItem.data.obj
        /\ src[i]["temp"] # srcBefore[i]["temp"]
        /\ src[i]["icon"] = srcBefore[i]["icon"]

\* C13: setItemByDatetimeVal and updateItemByDatetimeVal, called with a record
\* and an identifier of valid type that resolves to nothing, throw nothing and
\* leave the array as it was.
C13_UnresolvedItemNoOp ==
    (/\ lastItem.op \in {"setItem", "updateItem"}
     /\ lastItem.data.isObj
     /\ ValidType(lastItem.id)
     /\ Resolve(srcBefore, lastItem.id) = 0)
        => /\ lastItem.thrown = "none"
           /\ src = srcBefore

\* a replacement at the ordinal one past the end of an array that has items
C13_Witness ==
    /\ lastItem.op = "setItem"
    /\ lastItem.data.isObj
    /\ Len(srcBefore) > 0
    /\ lastItem.id = Num(Len(srcBefore))
    /\ lastItem.thrown = "none"

\* C14: updateDataAtDatetime with a partial record and two identifiers of
\* valid type returns normally and changes nothing when the day is not found
\* or the time identifier matches none of the day's hours; when both resolve
\* it merges the partial record into the hour, whose datetime stays, and
\* changes nothing else.
C14_UpdateDataAtDatetime ==
    LET i == DayPos(before, last.day)
        j == HourPos(before, i, last.time)
        data == last.data.obj
    IN  (/\ last.op = "updateDataAtDatetime"
         /\ last.data.isObj
         /\ HasDays(before)
         /\ ValidType(last.day)
         /\ ValidType(last.time)
         /\ i # 0 => HasHours(before, i))
           => /\ last.thrown = "none"
              /\ (i = 0 \/ j = 0) => weatherData = before
              /\ (i # 0 /\ j # 0) =>
                    LET h0 == before["days"][i]["hours"][j]
                    IN  weatherData =
                           WithHours(before, i,
                              ReplaceAt(before["days"][i]["hours"], j,
                                 Assign(ObjectAssign(h0, data), "datetime",
                                        h0["datetime"])))

\* the dynamic dates, as the specification lists them
ClaimedKeywords ==
    {<<"t", "o", "d", "a", "y">>,
     <<"t", "o", "m", "o", "r", "r", "o", "w">>,
     <<"y", "e", "s", "t", "e", "r", "d", "a", "y">>,
     <<"y", "e", "a", "r", "t", "o", "d", "a", "t", "e">>,
     <<"m", "o", "n", "t", "h", "t", "o", "d", "a", "t", "e">>,
     <<"l", "a", "s", "t", "y", "e", "a", "r">>,
     <<"l", "a", "s", "t", "2", "4", "h", "o", "u", "r", "s">>,
     <<"n", "e", "x", "t", "w", "e", "e", "k", "e", "n", "d">>,
     <<"l", "a", "s", "t", "w", "e", "e", "k", "e", "n", "d">>}

\* the seven weekday names
ClaimedWeekdays ==
    {<<"s", "a", "t", "u", "r", "d", "a", "y">>,
     <<"s", "u", "n", "d", "a", "y">>,
     <<"m", "o", "n", "d", "a", "y">>,
     <<"t", "u", "e", "s", "d", "a", "y">>,
     <<"w", "e", "d", "n", "e", "s", "d", "a", "y">>,
     <<"t", "h", "u", "r", "s", "d", "a", "y">>,
     <<"f", "r", "i", "d", "a", "y">>}

\* the strings the claim says validateParamDate accepts, among DateArgs:
\* keywords, next<N>days and last<N>days with N of one or more digits (0, 1,
\* 10, 365, and also 5 and 007), next<Weekday> and last<Weekday>, the date of
\* form YYYY-MM-DD and the datetime of form YYYY-MM-DDTHH:MM:SS
ClaimedDates ==
    ClaimedKeywords
    \cup {p \o n \o <<"d", "a", "y", "s">> :
            p \in {<<"n", "e", "x", "t">>, <<"l", "a", "s", "t">>},
            n \in {<<"0">>,
                   <<"1">>,
                   <<"1", "0">>,
                   <<"3", "6", "5">>,
                   <<"5">>,
                   <<"0", "0", "7">>}}
    \cup {p \o w : p \in {<<"n", "e", "x", "t">>, <<"l", "a", "s", "t">>},
                   w \in ClaimedWeekdays}
    \cup {<<"2", "0", "2", "4", "-", "0", "3", "-", "0", "7">>,
          <<"2", "0", "2", "5", "-", "0", "3", "-", "0", "7", "T", "0", "4", ":", "3", "0", ":", "0", "0">>}

ClaimedSections ==
    {<<"d", "a", "y", "s">>,
     <<"h", "o", "u", "r", "s">>,
     <<"m", "i", "n", "u", "t", "e", "s">>,
     <<"a", "l", "e", "r", "t", "s">>,
     <<"c", "u", "r", "r", "e", "n", "t">>,
     <<"e", "v", "e", "n", "t", "s">>,
     <<"o", "b", "s">>,
     <<"r", "e", "m", "o", "t", "e">>,
     <<"f", "c", "s", "t">>,
     <<"s", "t", "a", "t", "s">>,
     <<"s", "t", "a", "t", "s", "f", "c", "s", "t">>}

\* C16: validateParamInclude returns its values joined with commas, in the
\* order given, exactly when every value is a string of the section list;
\* otherwise it returns nothing and throws for the first invalid value in
\* argument order: TypeError when that value is no string, Error when it is
\* a string outside the list.
C16_ValidateParamInclude ==
    lastValid.op = "validateParamInclude"
        => LET param == lastValid.args
               invalid == {i \in 1..Len(param) :
                             ~(param[i].t = "string"
                               /\ param[i].s \in ClaimedSections)}
           IN  /\ invalid = {} <=> lastValid.thrown = "none"
               /\ invalid = {} => lastValid.ret = Text(Join(param))
               /\ invalid # {} =>
                     LET i == CHOOSE i \in invalid : \A j \in invalid : i <= j
                     IN  /\ lastValid.ret = Undefined
                         /\ lastValid.thrown =
                               IF param[i].t = "string" THEN "Error"
                               ELSE "TypeError"

\* a string outside the list followed by a value that is no string: Error
C16_Witness ==
    /\ lastValid.op = "validateParamInclude"
    /\ Len(lastValid.args) = 2
    /\ lastValid.args[1] = Text(<<"D", "a", "y", "s">>)
    /\ lastValid.args[2] = False
    /\ lastValid.thrown = "Error"

\* the field catalog of the specification
ClaimedCatalog ==
    {<<"t", "e", "m", "p">>,
     <<"t", "e", "m", "p", "m", "a", "x">>,
     <<"t", "e", "m", "p", "m", "i", "n">>,
     <<"f", "e", "e", "l", "s", "l", "i", "k", "e">>,
     <<"f", "e", "e", "l", "s", "l", "i", "k", "e", "m", "a", "x">>,
     <<"f", "e", "e", "l", "s", "l", "i", "k", "e", "m", "i", "n">>,
     <<"d", "e", "w">>,
     <<"h", "u", "m", "i", "d", "i", "t", "y">>,
     <<"p", "r", "e", "c", "i", "p">>,
     <<"p", "r", "e", "c", "i", "p", "p", "r", "o", "b">>,
     <<"p", "r", "e", "c", "i", "p", "c", "o", "v", "e", "r">>,
     <<"p", "r", "e", "c", "i", "p", "t", "y", "p", "e">>,
     <<"s", "n", "o", "w">>,
     <<"s", "n", "o", "w", "d", "e", "p", "t", "h">>,
     <<"w", "i", "n", "d", "g", "u", "s", "t">>,
     <<"w", "i", "n", "d", "s", "p", "e", "e", "d">>,
     <<"w", "i", "n", "d", "d", "i", "r">>,
     <<"p", "r", "e", "s", "s", "u", "r", "e">>,
     <<"c", "l", "o", "u", "d", "c", "o", "v", "e", "r">>,
     <<"v", "i", "s", "i", "b", "i", "l", "i", "t", "y">>,
     <<"s", "o", "l", "a", "r", "r", "a", "d", "i", "a", "t", "i", "o", "n">>,
     <<"s", "o", "l", "a", "r", "e", "n", "e", "r", "g", "y">>,
     <<"u", "v", "i", "n", "d", "e", "x">>,
     <<"s", "e", "v", "e", "r", "e", "r", "i", "s", "k">>,
     <<"s", "t", "a", "t", "i", "o", "n", "s">>,
     <<"s", "u", "n", "r", "i", "s", "e">>,
     <<"s", "u", "n", "r", "i", "s", "e", "E", "p", "o", "c", "h">>,
     <<"s", "u", "n", "s", "e", "t">>,
     <<"s", "u", "n", "s", "e", "t", "E", "p", "o", "c", "h">>,
     <<"m", "o", "o", "n", "p", "h", "a", "s", "e">>,
     <<"c", "o", "n", "d", "i", "t", "i", "o", "n", "s">>,
     <<"d", "e", "s", "c", "r", "i", "p", "t", "i", "o", "n">>,
     <<"i", "c", "o", "n">>,
     <<"s", "o", "u", "r", "c", "e">>}

\* C17: validateParamElements accepts every field name of the field catalog
\* and returns the comma-joined list; it rejects every string outside the
\* catalog.
C17_ValidateParamElements ==
    (lastValid.op = "validateParamElements"
     /\ \A i \in 1..Len(lastValid.args) : lastValid.args[i].t = "string")
        => IF \A i \in 1..Len(lastValid.args) :
                 lastValid.args[i].s \in ClaimedCatalog
           THEN /\ lastValid.thrown = "none"
                /\ lastValid.ret = Text(Join(lastValid.args))
           ELSE lastValid.thrown = "Error"

\* C18: fetchWeatherData is rejected with the 'No API key' error when the
\* store has no API key, whatever the location, and with the 'location must
\* be specified' error when it has a key and the location is empty; no
\* request is issued and the document is as it was.
C18_FetchWithoutKeyOrLocation ==
    (last.op = "fetchWeatherData"
     /\ (apiKey = 0 \/ ~Truthy(last.location)))
        => /\ last.settled = "rejected"
           /\ last.error = IF apiKey = 0 THEN "NoApiKey" ELSE "NoLocation"
           /\ requests = 0
           /\ inflight = NoRequest
           /\ weatherData = before

\* neither a key nor a location, on a store that holds a document
C18_Witness ==
    /\ last.op = "fetchWeatherData"
    /\ apiKey = 0
    /\ last.location = Str(0)
    /\ HasDays(before)
    /\ last.error = "NoApiKey"

\* C19: when a fetch fails for a missing key, a missing location, a status
\* that is no success or a body that cannot be parsed, the document is the
\* one of before the call, the call is rejected with the failure, and one
\* request at most was issued.
C19_FailedFetch ==
    (/\ last.op = "fetchWeatherData"
     /\ inflight = NoRequest
     /\ last.error \in {"NoApiKey", "NoLocation", "ResponseText", "SyntaxError"})
        => /\ weatherData = before
           /\ getWeatherData(weatherData) = getWeatherData(before)
           /\ last.settled = "rejected"
           /\ ~last.uncaught
           /\ requests <= 1

\* C20: after every fetchWeatherData call that resolved, on either
\* transport, getWeatherData() returns the document the call resolved with.
C20_FetchedDocumentStored ==
    (last.op = "fetchWeatherData" /\ last.settled = "resolved")
        => getWeatherData(weatherData) = last.doc

\* a request parameter that was given (is not empty) and that its validator
\* rejects
RejectedByValidator(params) ==
    \/ Truthy(params.fromDate) /\ validateParamDate(params.fromDate).thrown # "none"
    \/ Truthy(params.toDate) /\ validateParamDate(params.toDate).thrown # "none"
    \/ Truthy(params.unitGroup)
          /\ validateParamUnitGroup(params.unitGroup).thrown # "none"
    \/ Truthy(params.include)
          /\ validateParamInclude(<<params.include>>).thrown # "none"
    \/ Truthy(params.elements)
          /\ validateParamElements(<<params.elements>>).thrown # "none"

\* C21: fetchWeatherData called with an API key, a location and a fromDate,
\* toDate, unitGroup, include or elements value that its validator rejects
\* fails with the validation error, and no request is issued.
C21_FetchValidatesParams ==
    (/\ last.op = "fetchWeatherData"
     /\ apiKey # 0
     /\ Truthy(last.location)
     /\ RejectedByValidator(last.params))
        => /\ last.settled = "rejected"
           /\ last.error = "Validation"
           /\ requests = 0

\* the day fields of the model that hold numbers
NumericDayFields == {"temp", "tempmax"}

\* C22 as stated: for latitude, longitude, tzoffset and queryCost and for the
\* numeric day fields, after the field was set to 0 its getter returns 0.
C22_ZeroIsPresent ==
    /\ (last.op = "setTop" /\ last.value = Num(0) /\ last.thrown = "none")
          => GetTopField(weatherData, last.field) = Return(Num(0))
    /\ (/\ last.op = "setOnDay"
        /\ last.field \in NumericDayFields
        /\ last.value = Num(0)
        /\ DayPos(before, last.day) # 0)
          => GetFieldOnDay(weatherData, last.day, last.field) = Return(Num(0))

\* C22, amended: after the field was set to 0, the getters of latitude,
\* longitude and tzoffset and of the numeric day fields return 0, and
\* getQueryCost returns null.
C22_ZeroIsPresentButQueryCost ==
    /\ (last.op = "setTop" /\ last.value = Num(0) /\ last.thrown = "none")
          => GetTopField(weatherData, last.field) =
                IF last.field = "queryCost" THEN Return(Null)
                ELSE Return(Num(0))
    /\ (/\ last.op = "setOnDay"
        /\ last.field \in NumericDayFields
        /\ last.value = Num(0)
        /\ DayPos(before, last.day) # 0)
          => GetFieldOnDay(weatherData, last.day, last.field) = Return(Num(0))

\* 0 written over a tzoffset that was not 0
C22_Witness ==
    /\ last.op = "setTop"
    /\ last.field = "tzoffset"
    /\ last.value = Num(0)
    /\ Prop(before, "tzoffset") = Num(2)

AllDaysHaveHours(doc) ==
    HasDays(doc) /\ \A i \in 1..Len(doc["days"]) : HasHours(doc, i)

\* the number of hours of the first n days
RECURSIVE HoursBefore(_, _)
HoursBefore(doc, n) ==
    IF n = 0 THEN 0 ELSE HoursBefore(doc, n - 1) + Len(doc["days"][n]["hours"])

C25_LatitudeLongitudeRange ==
    (last.op = "setTop" /\ last.field \in {"latitude", "longitude"})
        => LET max == IF last.field = "latitude" THEN 90 ELSE 180
           IN  IF last.value.v < -max \/ last.value.v > max
               THEN /\ last.thrown = "RangeError"
                    /\ weatherData = before
                    /\ GetTopField(weatherData, last.field)
                          = GetTopField(before, last.field)
               ELSE /\ last.thrown = "none"
                    /\ GetTopField(weatherData, last.field) = Return(last.value)

\* a longitude out of range refused on a document that holds a longitude
C25_Witness ==
    /\ last.op = "setTop"
    /\ last.field = "longitude"
    /\ last.value = Num(181)
    /\ last.thrown = "RangeError"
    /\ Prop(weatherData, "longitude") = Num(31)

\* C26: setDataOnDay and setHourlyDataOnDay called with a day identifier of
\* valid type that resolves to no day raise nothing and leave the days
\* sequence as it was: its length and every one of its records.
C26_BulkSetUnresolvedDay ==
    (/\ last.op \in {"setDataOnDay", "setHourlyDataOnDay"}
     /\ HasDays(before)
     /\ ValidType(last.day)
     /\ DayPos(before, last.day) = 0)
        => /\ last.thrown = "none"
           /\ Len(weatherData["days"]) = Len(before["days"])
           /\ weatherData["days"] = before["days"]

\* C27: on a store just constructed or cleared, every set<Field>OnDay and
\* set<Field>AtDatetime called with identifiers of valid type raises
\* nothing and leaves the document empty.
C27_SetOnEmptyStore ==
    (/\ last.op \in {"setOnDay", "setAtDatetime"}
     /\ before = EmptyObject
     /\ ValidType(last.day)
     /\ last.op = "setAtDatetime" => ValidType(last.time))
        => /\ last.thrown = "none"
           /\ weatherData = EmptyObject

\* the days of the document have datetimes that are strings, no two the same
UniqueDays(doc) ==
    /\ HasDays(doc)
    /\ \A i \in 1..Len(doc["days"]) :
          /\ TypeOf(Prop(doc["days"][i], "datetime")) = "string"
          /\ \A j \in 1..Len(doc["days"]) :
                Prop(doc["days"][i], "datetime") = Prop(doc["days"][j], "datetime")
                   => i = j

\* the other identifier of the day at position i: its datetime for an
\* ordinal, its ordinal for a datetime
OtherId(doc, i, id) ==
    IF TypeOf(id) = "number" THEN doc["days"][i]["datetime"] ELSE Num(i - 1)

\* C28: in a document whose day datetimes are unique, a per-field getter
\* returns the same for the ordinal i as for the string days[i].datetime,
\* and a per-field setter called with the one leaves the document that the
\* same call with the other leaves; the sets keep the datetimes, so this
\* holds along any sequence of them.
C28_OrdinalEqualsString ==
    (/\ last.op \in {"getOnDay", "setOnDay", "getAtDatetime", "setAtDatetime"}
     /\ UniqueDays(before)
     /\ DayPos(before, last.day) # 0)
        => LET other == OtherId(before, DayPos(before, last.day), last.day)
           IN  /\ DayPos(before, other) = DayPos(before, last.day)
               /\ last.op = "getOnDay" =>
                     LET o == GetFieldOnDay(before, other, last.field)
                     IN  o.thrown = last.thrown /\ o.value = last.ret
               /\ last.op = "setOnDay" =>
                     LET o == SetFieldOnDay(before, other, last.field, last.value)
                     IN  o.thrown = last.thrown /\ o.doc = weatherData
               /\ last.op = "getAtDatetime" =>
                     LET o == getTempAtDatetime(before, other, last.time,
                                                last.field)
                     IN  o.thrown = last.thrown /\ o.value = last.ret
               /\ last.op = "setAtDatetime" =>
                     LET o == setTempAtDatetime(before, other, last.time,
                                                last.field, last.value)
                     IN  o.thrown = last.thrown /\ o.doc = weatherData
               /\ UniqueDays(weatherData)
               /\ \A i \in 1..Len(before["days"]) :
                     weatherData["days"][i]["datetime"]
                        = before["days"][i]["datetime"]

\* a set by the ordinal of the last of several days
C28_Witness ==
    /\ last.op = "setOnDay"
    /\ UniqueDays(before)
    /\ Len(before["days"]) = MaxDays
    /\ last.day = Num(MaxDays - 1)
    /\ last.value = Num(7)
    /\ weatherData # before

\* the datetimes of a sequence of records, in its order
Datetimes(arr) == [i \in 1..Len(arr) |-> Prop(arr[i], "datetime")]

\* the two documents have the same days in the same order, each with the
\* same hours in the same order, by their datetimes
SameStructure(d1, d2) ==
    /\ HasDays(d1) = HasDays(d2)
    /\ HasDays(d1) =>
          /\ Datetimes(d1["days"]) = Datetimes(d2["days"])
          /\ \A i \in 1..Len(d1["days"]) :
                /\ HasHours(d1, i) = HasHours(d2, i)
                /\ HasHours(d1, i) =>
                      Datetimes(d1["days"][i]["hours"])
                         = Datetimes(d2["days"][i]["hours"])

\* C29: a set<Field>OnDay, set<Field>AtDatetime, setDataAtDatetime or
\* updateDataAtDatetime call that returns normally leaves the number and
\* order of the days and of each day's hours, and the datetime of every day
\* and hour, as they were; so does any sequence of such calls.
C29_StructureKept ==
    (/\ last.op \in {"setOnDay", "setAtDatetime", "setDataAtDatetime",
                     "updateDataAtDatetime"}
     /\ last.thrown = "none")
        => SameStructure(before, weatherData)

\* a record with a datetime of its own written over an hour, by its ordinal
C29_Witness ==
    /\ last.op = "setDataAtDatetime"
    /\ last.thrown = "none"
    /\ last.data.isObj
    /\ Prop(last.data.obj, "datetime") = Str(9)
    /\ TypeOf(last.time) = "number"
    /\ weatherData # before


\* C30: a fetchWeatherData call that has not been answered, or whose answer
\* is no parsed document, leaves the document as it was; a call that
\* resolves leaves the parsed document as the whole document, so that it
\* has none of the fields set since the call was started, whichever calls
\* are still suspended
C30_FetchSwapsDocument ==
    last.op = "fetchWeatherData" =>
        /\ last.settled # "resolved" => weatherData = before
        /\ last.settled = "resolved" =>
               /\ getWeatherData(weatherData) = last.doc
               /\ \A F \in TopFields :
                      GetTopField(weatherData, F) = GetTopField(last.doc, F)

====
